---------------------------- MODULE Spec2Model ----------------------------
(***************************************************************************)
(* A model of robuku's bookmark store (package bukudb): the BukuDB type,   *)
(* its cached length, its mutex, the bookmarks table it reads and writes,  *)
(* and the parallel loader behind GetAll.                                  *)
(*                                                                         *)
(* Strings that the code parses (the tags column, a tag) are sequences of  *)
(* one-character strings, so that strings.Join and strings.Split are       *)
(* computed and not assumed.  URL, title and comment are opaque strings.   *)
(***************************************************************************)
EXTENDS Integers, Sequences, FiniteSets, TLC

(***************************************************************************)
(* Bounds of the model.                                                    *)
(***************************************************************************)
\* The capacity of the store.  The code's constant is 1000
\* (bukudb.go, const MaxBookmarks); the model scales it down.
MaxBookmarks == 3
\* runtime.NumCPU() is any value in 1..MaxWorkers.
MaxWorkers == 3

\* The width of Bookmark.ID (uint16).
IDBits == 16
IDMod == 2 ^ IDBits
Uint16(n) == n % IDMod

\* The table may hold one row more than the store's capacity.
MaxID == MaxBookmarks + 1
IDs == 1 .. MaxID

VARIABLES
    conn,           \* "none" before NewBukuDB, "open" after, "failed" if it failed
    rows,           \* the bookmarks table: id -> row, or NoRow
    len,            \* BukuDB.len
    mu,             \* BukuDB.mu: "free", or the operation that holds it
    numWorkers,     \* loadBookmarks: numWorkers of the GetAll in progress
    wpc,            \* loadBookmarks: each goroutine, "idle" / "run", and
                    \* "done" / "failed" once processBookmarkRange returned
    bookmarksMap,   \* loadBookmarks: bookmarksMap, id -> Bookmark
    processErr,     \* loadBookmarks: processErr, 0 (nil) or the worker that set it
    ret,            \* the latest call and what it returned (b: the Bookmark
                    \* returned; for Add the argument, for AddTags and
                    \* RemoveTags the tags argument)
    execLog,        \* the Exec statements of the last call, with their outcome
    calls,          \* each caller of AddTags / RemoveTags between its Get and
                    \* its updateField: the arguments and the Bookmark read
    Data,           \* InputHandler: api.Data, the State and the cached Bookmark
    Entries,        \* InputHandler: api.Entries, the entries rofi shows
    handled         \* the latest HandleInput: the state it was called in, its
                    \* input, and the store calls and the browser launch it made

\* The variables of the input handler, which no method of the store touches
api == <<Data, Entries, handled>>

vars == <<conn, rows, len, mu, numWorkers, wpc, bookmarksMap, processErr, ret,
          execLog, calls, Data, Entries, handled>>

(***************************************************************************)
(* Strings                                                                 *)
(***************************************************************************)
Comma == ","

RECURSIVE Join(_)
\* strings.Join(elems, ",")
Join(elems) ==
    IF elems = <<>> THEN <<>>
    ELSE IF Len(elems) = 1 THEN Head(elems)
    ELSE Head(elems) \o <<Comma>> \o Join(Tail(elems))

RECURSIVE SplitFrom(_, _)
\* strings.Split(s, ","), cur being the element read so far
SplitFrom(s, cur) ==
    IF s = <<>> THEN <<cur>>
    ELSE IF Head(s) = Comma THEN <<cur>> \o SplitFrom(Tail(s), <<>>)
    ELSE SplitFrom(Tail(s), Append(cur, Head(s)))

Split(s) == SplitFrom(s, <<>>)

\* filter(slice, func(t string) bool { return t != "" })
FilterNonEmpty(slice) == SelectSeq(slice, LAMBDA t : t # <<>>)

\* Get's decoding of the tags column
GetTags(tagsString) ==
    IF tagsString # <<Comma>> THEN FilterNonEmpty(Split(tagsString)) ELSE <<>>

\* processBookmarkRange's decoding of the tags column
RangeTags(tagsString) ==
    IF Len(tagsString) >= 2
    THEN Split(SubSeq(tagsString, 2, Len(tagsString) - 1))
    ELSE <<>>

(***************************************************************************)
(* Bookmarks and rows                                                      *)
(***************************************************************************)
NoRow == [none |-> TRUE]

\* Bookmark{}
ZeroBookmark == [ID |-> 0, URL |-> "", Title |-> "", Tags |-> <<>>, Comment |-> ""]

\* api.Data before the first HandleInput, and no HandleInput yet
ZeroData == [Bookmark |-> ZeroBookmark, State |-> "Null"]
NoInput == [State |-> "Null", input |-> <<>>, rofiState |-> "none", calls |-> <<>>,
            exec |-> "none", panic |-> FALSE]

Tag(c) == <<c>>
NoTag == <<>>

\* The tables the store is opened on: ids 1..m for m in 0..MaxID, the rows of
\* the test database (createTestDb) and one more.
TestRow(i) ==
    CASE i = 1 -> [url |-> "a.com", metadata |-> "title a",
                   tags |-> <<Comma, "a", Comma, "b", Comma>>, desc |-> "desc a"]
      [] i = 2 -> [url |-> "b.com", metadata |-> "title b",
                   tags |-> <<Comma, "b", Comma>>, desc |-> ""]
      [] i = 3 -> [url |-> "c.com", metadata |-> "title c",
                   tags |-> <<Comma>>, desc |-> ""]
      [] OTHER -> [url |-> "d.com", metadata |-> "",
                   tags |-> <<Comma>>, desc |-> ""]

TestTable(m) == [i \in IDs |-> IF i <= m THEN TestRow(i) ELSE NoRow]

\* The bookmarks callers add: a new one, a new one with an empty tag among
\* its tags (getTagsFromInput yields such lists), and one whose URL is that
\* of the first row and whose tag holds the delimiter.
AddInputs ==
    { [ID |-> 9, URL |-> "new.com", Title |-> "title new",
       Tags |-> <<Tag("b"), Tag("a")>>, Comment |-> ""],
      [ID |-> 0, URL |-> "e.com", Title |-> "",
       Tags |-> <<Tag("a"), NoTag>>, Comment |-> "desc e"],
      [ID |-> 2, URL |-> "a.com", Title |-> "dup",
       Tags |-> << <<"a", Comma, "b">> >>, Comment |-> ""] }

PersistedIDs(t) == {i \in IDs : t[i] # NoRow}

\* SELECT MAX(id) FROM bookmarks: 0 stands for NULL (no row)
MaxIDOf(t) == IF PersistedIDs(t) = {} THEN 0
              ELSE CHOOSE i \in PersistedIDs(t) : \A j \in PersistedIDs(t) : j <= i

URLTaken(t, url, except) == \E i \in IDs : i # except /\ t[i] # NoRow /\ t[i].url = url


Min(a, b) == IF a < b THEN a ELSE b

(***************************************************************************)
(* The results of calls                                                    *)
(***************************************************************************)
ErrNone == ""
ErrRange == "out of range"
ErrScan == "failed to scan bookmark"
ErrMax == "maximum number of bookmarks reached"
ErrInsert == "failed to insert bookmark"
ErrDelete == "failed to delete bookmark"
ErrRenumber == "failed to update bookmark id"
ErrUpdate == "failed to update field"
ErrLoad == "error processing bookmarks range"
ErrOpen == "failed to get database length"
ErrOpenDB == "failed to open database"

Result(op, id, err, b, list) ==
    [op |-> op, id |-> id, err |-> err, b |-> b, list |-> list]

NoCall == Result("none", 0, ErrNone, ZeroBookmark, <<>>)

\* A call that has not returned yet
ErrPending == "pending"
Pending(op) == Result(op, 0, ErrPending, ZeroBookmark, <<>>)

\* One Exec against the table, as the log keeps it
Exec(stmt, id, ok) == [stmt |-> stmt, id |-> id, ok |-> ok]

\* A Lock that does not wait for the mutex
Lock_Skip == TRUE

\* db.mu.Lock() returns: no other operation holds the mutex.  Every method
\* but GetAll takes and releases it within its one step.
Lock == mu = "free"

(***************************************************************************)
(* NewBukuDB and getMaxBookmarkID                                          *)
(***************************************************************************)
\* The storage faults of an open: none, sql.Open fails, or the query of the
\* maximum id fails.
OpenFaults == {"none", "open", "query"}

\* A getMaxBookmarkID that does not cap the maximum
getMaxBookmarkID_NoCap(t, fault) ==
    IF fault = "query" \/ MaxIDOf(t) = 0 THEN [err |-> ErrOpen, maxID |-> 0]
    ELSE [err |-> ErrNone, maxID |-> MaxIDOf(t)]

\* getMaxBookmarkID: the query fails, or the Scan of MAX(id) into an int
\* fails on NULL (an empty table); the maximum is capped at MaxBookmarks.
getMaxBookmarkID(t, fault) ==
    IF fault = "query" \/ MaxIDOf(t) = 0 THEN [err |-> ErrOpen, maxID |-> 0]
    ELSE [err |-> ErrNone, maxID |-> Min(MaxIDOf(t), MaxBookmarks)]

\* NewBukuDB returns a store (conn "open") or nil and an error (conn "failed")
NewBukuDB(fault) ==
    /\ UNCHANGED api
    /\ conn = "none"
    /\ LET l == IF fault = "open" THEN [err |-> ErrOpenDB, maxID |-> 0]
                ELSE getMaxBookmarkID(rows, fault) IN
         /\ conn' = IF l.err = ErrNone THEN "open" ELSE "failed"
         /\ len' = l.maxID
         /\ ret' = Result("NewBukuDB", 0, l.err, ZeroBookmark, <<>>)
    /\ execLog' = <<>>
    /\ UNCHANGED <<rows, mu, numWorkers, wpc, bookmarksMap, processErr, calls>>

(***************************************************************************)
(* Get                                                                     *)
(***************************************************************************)
\* The Bookmark that Get scans from row id
ScanGet(id, row) ==
    [ID |-> Uint16(id), URL |-> row.url, Title |-> row.metadata,
     Tags |-> GetTags(row.tags), Comment |-> row.desc]

\* What db.Get(id) returns on table t with cached length n
GetOutcome(t, n, id) ==
    IF id < 1 \/ id > n THEN [err |-> ErrRange, b |-> ZeroBookmark]
    ELSE IF t[id] = NoRow THEN [err |-> ErrScan, b |-> ZeroBookmark]
    ELSE [err |-> ErrNone, b |-> ScanGet(id, t[id])]

Get(id) ==
    /\ UNCHANGED api
    /\ conn = "open" /\ Lock
    /\ LET g == GetOutcome(rows, len, id) IN
         ret' = Result("Get", id, g.err, g.b, <<>>)
    /\ execLog' = <<>>
    /\ UNCHANGED <<conn, rows, len, mu, numWorkers, wpc, bookmarksMap, processErr, calls>>

(***************************************************************************)
(* Add                                                                     *)
(***************************************************************************)
\* An INSERT with the title and the comment in each other's column
InsertRow_SwapFields(bookmark) ==
    [url |-> bookmark.URL, metadata |-> bookmark.Comment,
     tags |-> Join(bookmark.Tags), desc |-> bookmark.Title]

\* The row that Add's INSERT writes for bookmark
InsertRow(bookmark) ==
    [url |-> bookmark.URL, metadata |-> bookmark.Title,
     tags |-> Join(bookmark.Tags), desc |-> bookmark.Comment]

\* The INSERT fails when the storage does (fault), when the id is taken
\* (PRIMARY KEY) or when the URL is (UNIQUE).
InsertFails(t, id, bookmark, fault) ==
    fault \/ t[id] # NoRow \/ URLTaken(t, bookmark.URL, 0)

\* An Add that sets db.len before its INSERT has succeeded
AddOutcome_CountsFailed(t, n, bookmark, fault) ==
    LET id == Uint16(n + 1) IN
    IF id > Uint16(MaxBookmarks)
    THEN [rows |-> t, len |-> n, err |-> ErrMax, log |-> <<>>]
    ELSE IF InsertFails(t, id, bookmark, fault)
    THEN [rows |-> t, len |-> id, err |-> ErrInsert,
          log |-> <<Exec("INSERT", id, FALSE)>>]
    ELSE [rows |-> [t EXCEPT ![id] = InsertRow(bookmark)], len |-> id,
          err |-> ErrNone, log |-> <<Exec("INSERT", id, TRUE)>>]

\* An Add without the test of the capacity
AddOutcome_NoMax(t, n, bookmark, fault) ==
    LET id == Uint16(n + 1) IN
    IF InsertFails(t, id, bookmark, fault)
    THEN [rows |-> t, len |-> n, err |-> ErrInsert,
          log |-> <<Exec("INSERT", id, FALSE)>>]
    ELSE [rows |-> [t EXCEPT ![id] = InsertRow(bookmark)], len |-> id,
          err |-> ErrNone, log |-> <<Exec("INSERT", id, TRUE)>>]

\* What db.Add(bookmark) does on table t with cached length n
AddOutcome(t, n, bookmark, fault) ==
    LET id == Uint16(n + 1) IN
    IF id > Uint16(MaxBookmarks)
    THEN [rows |-> t, len |-> n, err |-> ErrMax, log |-> <<>>]
    ELSE IF InsertFails(t, id, bookmark, fault)
    THEN [rows |-> t, len |-> n, err |-> ErrInsert,
          log |-> <<Exec("INSERT", id, FALSE)>>]
    ELSE [rows |-> [t EXCEPT ![id] = InsertRow(bookmark)], len |-> id,
          err |-> ErrNone, log |-> <<Exec("INSERT", id, TRUE)>>]

Add(bookmark, fault) ==
    /\ UNCHANGED api
    /\ conn = "open" /\ Lock
    /\ LET a == AddOutcome(rows, len, bookmark, fault) IN
         /\ rows' = a.rows
         /\ len' = a.len
         /\ ret' = Result("Add", 0, a.err, bookmark, <<>>)
         /\ execLog' = a.log
    /\ UNCHANGED <<conn, mu, numWorkers, wpc, bookmarksMap, processErr, calls>>

(***************************************************************************)
(* Remove                                                                  *)
(***************************************************************************)
\* DELETE FROM bookmarks WHERE id = ?
DeleteRow(t, id) == [t EXCEPT ![id] = NoRow]

\* UPDATE bookmarks SET id = new WHERE id = old
MoveRow(t, new, old) == [t EXCEPT ![new] = t[old], ![old] = NoRow]

\* The UPDATE fails when the storage does, or when it would give a row the id
\* of another (PRIMARY KEY).
MoveFails(t, new, old, fault) == fault \/ (t[old] # NoRow /\ t[new] # NoRow)

RECURSIVE Renumber(_, _, _, _, _, _)
\* Remove's loop from i on: w counts the Execs of the call, and the Exec
\* numbered failAt is the one the storage fails (0: none).
Renumber(t, i, n, failAt, w, log) ==
    IF i >= n THEN [rows |-> t, len |-> n - 1, err |-> ErrNone, log |-> log]
    ELSE IF MoveFails(t, i, i + 1, failAt = w)
    THEN [rows |-> t, len |-> n, err |-> ErrRenumber,
          log |-> Append(log, Exec("UPDATE id", i + 1, FALSE))]
    ELSE Renumber(IF t[i + 1] = NoRow THEN t ELSE MoveRow(t, i, i + 1),
                  i + 1, n, failAt, w + 1,
                  Append(log, Exec("UPDATE id", i + 1, TRUE)))

\* A Remove that deletes the row and does not renumber the rows above it
RemoveOutcome_NoShift(t, n, id, failAt) ==
    LET index == Uint16(id - 1) IN
    IF id < 1 \/ index >= n
    THEN [rows |-> t, len |-> n, err |-> ErrRange, log |-> <<>>]
    ELSE IF failAt = 1
    THEN [rows |-> t, len |-> n, err |-> ErrDelete,
          log |-> <<Exec("DELETE", id, FALSE)>>]
    ELSE [rows |-> DeleteRow(t, id), len |-> n - 1, err |-> ErrNone,
          log |-> <<Exec("DELETE", id, TRUE)>>]

\* A Remove that ignores the error of a renumbering
RemoveOutcome_Silent(t, n, id, failAt) ==
    LET index == Uint16(id - 1) IN
    IF id < 1 \/ index >= n
    THEN [rows |-> t, len |-> n, err |-> ErrRange, log |-> <<>>]
    ELSE IF failAt = 1
    THEN [rows |-> t, len |-> n, err |-> ErrDelete,
          log |-> <<Exec("DELETE", id, FALSE)>>]
    ELSE LET r == Renumber(DeleteRow(t, id), index + 1, n, failAt, 2,
                           <<Exec("DELETE", id, TRUE)>>)
         IN [r EXCEPT !.err = ErrNone, !.len = n - 1]

\* What db.Remove(id) does on table t with cached length n
RemoveOutcome(t, n, id, failAt) ==
    LET index == Uint16(id - 1) IN
    IF id < 1 \/ index >= n
    THEN [rows |-> t, len |-> n, err |-> ErrRange, log |-> <<>>]
    ELSE IF failAt = 1
    THEN [rows |-> t, len |-> n, err |-> ErrDelete,
          log |-> <<Exec("DELETE", id, FALSE)>>]
    ELSE Renumber(DeleteRow(t, id), index + 1, n, failAt, 2,
                  <<Exec("DELETE", id, TRUE)>>)

Remove(id, failAt) ==
    /\ UNCHANGED api
    /\ conn = "open" /\ Lock
    /\ LET r == RemoveOutcome(rows, len, id, failAt) IN
         /\ rows' = r.rows
         /\ len' = r.len
         /\ ret' = Result("Remove", id, r.err, ZeroBookmark, <<>>)
         /\ execLog' = r.log
    /\ UNCHANGED <<conn, mu, numWorkers, wpc, bookmarksMap, processErr, calls>>

(***************************************************************************)
(* updateField                                                             *)
(***************************************************************************)
\* An UPDATE of the tags that also empties the comment
SetField_ClearsDesc(row, field, value) ==
    CASE field = "metadata" -> [row EXCEPT !.metadata = value]
      [] field = "URL" -> [row EXCEPT !.url = value]
      [] field = "desc" -> [row EXCEPT !.desc = value]
      [] field = "tags" -> [row EXCEPT !.tags = value, !.desc = ""]

\* UPDATE bookmarks SET field = value WHERE id = ?
SetField(row, field, value) ==
    CASE field = "metadata" -> [row EXCEPT !.metadata = value]
      [] field = "URL" -> [row EXCEPT !.url = value]
      [] field = "desc" -> [row EXCEPT !.desc = value]
      [] field = "tags" -> [row EXCEPT !.tags = value]

\* The UPDATE fails when the storage does, or when it would store a URL twice
\* (UNIQUE).  It succeeds when no row has the id.
UpdateFails(t, id, field, value, fault) ==
    fault \/ (t[id] # NoRow /\ field = "URL" /\ URLTaken(t, value, id))

\* An updateField that lets the id after the last through
updateFieldOutcome_OffByOne(t, n, id, field, value, fault) ==
    IF id < 1 \/ id > n + 1
    THEN [rows |-> t, err |-> ErrRange, log |-> <<>>]
    ELSE IF fault
    THEN [rows |-> t, err |-> ErrUpdate, log |-> <<Exec(field, id, FALSE)>>]
    ELSE [rows |-> t, err |-> ErrNone, log |-> <<Exec(field, id, TRUE)>>]

\* What db.updateField(id, field, value) does on table t with cached length n
updateFieldOutcome(t, n, id, field, value, fault) ==
    IF id < 1 \/ id > n
    THEN [rows |-> t, err |-> ErrRange, log |-> <<>>]
    ELSE IF UpdateFails(t, id, field, value, fault)
    THEN [rows |-> t, err |-> ErrUpdate, log |-> <<Exec(field, id, FALSE)>>]
    ELSE [rows |-> IF t[id] = NoRow THEN t
                   ELSE [t EXCEPT ![id] = SetField(t[id], field, value)],
          err |-> ErrNone, log |-> <<Exec(field, id, TRUE)>>]

updateField(id, field, value, fault) ==
    /\ UNCHANGED api
    /\ conn = "open" /\ Lock
    /\ LET u == updateFieldOutcome(rows, len, id, field, value, fault) IN
         /\ rows' = u.rows
         /\ ret' = Result("updateField", id, u.err, ZeroBookmark, <<>>)
         /\ execLog' = u.log
    /\ UNCHANGED <<conn, len, mu, numWorkers, wpc, bookmarksMap, processErr, calls>>

(***************************************************************************)
(* GetAll: loadBookmarks and processBookmarkRange                          *)
(***************************************************************************)
Workers == 0 .. MaxWorkers - 1

\* entriesPerWorker := (maxID + numWorkers - 1) / numWorkers
entriesPerWorker(maxID, w) == (maxID + w - 1) \div w

\* start := i*entriesPerWorker + 1
RangeStart(i, maxID, w) == i * entriesPerWorker(maxID, w) + 1

\* A range end without the clamp to maxID
RangeEnd_NoClamp(i, maxID, w) == (i + 1) * entriesPerWorker(maxID, w)

\* end := (i + 1) * entriesPerWorker, clamped to maxID
RangeEnd(i, maxID, w) == Min((i + 1) * entriesPerWorker(maxID, w), maxID)

\* The Bookmark that processBookmarkRange scans from row id
ScanRange(id, row) ==
    [ID |-> Uint16(id), URL |-> row.url, Title |-> row.metadata,
     Tags |-> RangeTags(row.tags), Comment |-> row.desc]

\* The ids of SELECT ... WHERE id BETWEEN start AND end
Between(t, start, end) == {i \in PersistedIDs(t) : start <= i /\ i <= end}

\* bookmarksMap[b.ID] = b for the rows with the given ids
StoreIDs(m, t, ids) ==
    [k \in DOMAIN m \cup {Uint16(id) : id \in ids} |->
        IF \E id \in ids : Uint16(id) = k
        THEN ScanRange(CHOOSE id \in ids : Uint16(id) = k,
                       t[CHOOSE id \in ids : Uint16(id) = k])
        ELSE m[k]]

\* bookmarksMap after worker i has stored the rows of its range
StoreRange(m, t, i, maxID, w) ==
    StoreIDs(m, t, Between(t, RangeStart(i, maxID, w), RangeEnd(i, maxID, w)))

\* bookmarksMap after worker i has stored the rows of its range but the last,
\* where rows.Scan or rows.Err() fails
StorePart(m, t, i, maxID, w) ==
    StoreIDs(m, t, Between(t, RangeStart(i, maxID, w), RangeEnd(i, maxID, w) - 1))

\* How a worker's processBookmarkRange ends: without error, with a failed
\* conn.Query, or with an error while it reads the rows
LoadFaults == {"none", "query", "scan"}

\* A goroutine that assigns whatever processBookmarkRange returned, nil included
SetProcessErr_Always(cur, i, fault) == IF fault # "none" THEN i + 1 ELSE 0

\* if err := processBookmarkRange(...); err != nil { processErr = ... }
\* The goroutines write processErr without a lock: the last write stays.
SetProcessErr(cur, i, fault) == IF fault # "none" THEN i + 1 ELSE cur

EmptyMap == [k \in {} |-> ZeroBookmark]

RECURSIVE SortByID(_)
\* The values of bookmarksMap as a slice, sorted by ID
SortByID(m) ==
    IF DOMAIN m = {} THEN <<>>
    ELSE LET k == CHOOSE x \in DOMAIN m : \A y \in DOMAIN m : x <= y IN
         <<m[k]>> \o SortByID([x \in DOMAIN m \ {k} |-> m[x]])

\* GetAll takes db.mu and calls loadBookmarks(db.conn, db.len), which starts
\* numWorkers goroutines, one for each range.
GetAll(w) ==
    /\ UNCHANGED api
    /\ conn = "open" /\ Lock
    /\ mu' = "GetAll"
    /\ numWorkers' = w
    /\ wpc' = [i \in Workers |-> IF i < w THEN "run" ELSE "idle"]
    /\ bookmarksMap' = EmptyMap
    /\ processErr' = 0
    /\ ret' = Pending("GetAll")
    /\ execLog' = <<>>
    /\ UNCHANGED <<conn, rows, len, calls>>

\* Goroutine i: processBookmarkRange(conn, start, end, bookmarksMap, &mu),
\* and the assignment of its error to processErr.
processBookmarkRange(i, fault) ==
    /\ UNCHANGED api
    /\ wpc[i] = "run"
    /\ wpc' = [wpc EXCEPT ![i] = IF fault = "none" THEN "done" ELSE "failed"]
    /\ bookmarksMap' =
          CASE fault = "none" -> StoreRange(bookmarksMap, rows, i, len, numWorkers)
            [] fault = "query" -> bookmarksMap
            [] fault = "scan" -> StorePart(bookmarksMap, rows, i, len, numWorkers)
    /\ processErr' = SetProcessErr(processErr, i, fault)
    /\ UNCHANGED <<conn, rows, len, mu, numWorkers, ret, execLog, calls>>

\* A GetAll that returns without db.mu.Unlock()
loadBookmarksReturn_NoUnlock ==
    /\ UNCHANGED api
    /\ mu = "GetAll"
    /\ \A i \in Workers : wpc[i] # "run"
    /\ ret' = IF processErr # 0
              THEN Result("GetAll", 0, ErrLoad, ZeroBookmark, <<>>)
              ELSE Result("GetAll", 0, ErrNone, ZeroBookmark, SortByID(bookmarksMap))
    /\ numWorkers' = 0
    /\ wpc' = [i \in Workers |-> "idle"]
    /\ bookmarksMap' = EmptyMap
    /\ processErr' = 0
    /\ execLog' = <<>>
    /\ UNCHANGED <<conn, rows, len, mu, calls>>

\* wg.Wait() returns: loadBookmarks returns the sorted slice or the error,
\* and GetAll releases db.mu.
loadBookmarksReturn ==
    /\ UNCHANGED api
    /\ mu = "GetAll"
    /\ \A i \in Workers : wpc[i] # "run"
    /\ ret' = IF processErr # 0
              THEN Result("GetAll", 0, ErrLoad, ZeroBookmark, <<>>)
              ELSE Result("GetAll", 0, ErrNone, ZeroBookmark, SortByID(bookmarksMap))
    /\ mu' = "free"
    /\ numWorkers' = 0
    /\ wpc' = [i \in Workers |-> "idle"]
    /\ bookmarksMap' = EmptyMap
    /\ processErr' = 0
    /\ execLog' = <<>>
    /\ UNCHANGED <<conn, rows, len, calls>>

\* loadBookmarks(conn, maxID) with w workers none of which fails, as a function
\* of the table: every range is stored, in any order.
RECURSIVE LoadRanges(_, _, _, _, _)
LoadRanges(m, t, i, maxID, w) ==
    IF i >= w THEN m
    ELSE LoadRanges(StoreRange(m, t, i, maxID, w), t, i + 1, maxID, w)

loadBookmarks(t, maxID, w) == SortByID(LoadRanges(EmptyMap, t, 0, maxID, w))

(***************************************************************************)
(* The store                                                               *)
(***************************************************************************)
\* The ids Get, Remove and updateField are called with
CallIDs == 0 .. MaxID

\* The Exec of a Remove that the storage fails: none, the DELETE, or one of
\* the UPDATEs.
FailAts == 0 .. MaxBookmarks

\* The callers of AddTags and RemoveTags that may run at the same time
MaxClients == 2
Clients == 1 .. MaxClients
Idle == [pc |-> "idle", id |-> 0, tags |-> <<>>, b |-> ZeroBookmark]

\* The field updates of this specification
Updates == { [field |-> "metadata", value |-> "new title"] }

Init ==
    /\ Data = ZeroData /\ Entries = <<>> /\ handled = NoInput
    /\ conn = "none"
    /\ rows \in {TestTable(m) : m \in 0 .. MaxID}
    /\ len = 0
    /\ mu = "free"
    /\ numWorkers = 0
    /\ wpc = [i \in Workers |-> "idle"]
    /\ bookmarksMap = EmptyMap
    /\ processErr = 0
    /\ ret = NoCall
    /\ execLog = <<>>
    /\ calls = [p \in Clients |-> Idle]

Next ==
    \/ \E fault \in OpenFaults : NewBukuDB(fault)
    \/ \E id \in CallIDs : Get(id)
    \/ \E b \in AddInputs, fault \in BOOLEAN : Add(b, fault)
    \/ \E id \in CallIDs, failAt \in FailAts : Remove(id, failAt)
    \/ \E id \in CallIDs, u \in Updates, fault \in BOOLEAN :
          updateField(id, u.field, u.value, fault)
    \/ \E w \in 1 .. MaxWorkers : GetAll(w)
    \/ \E i \in Workers, fault \in LoadFaults : processBookmarkRange(i, fault)
    \/ loadBookmarksReturn

Spec == Init /\ [][Next]_vars

\* The store opened on a table that holds no more rows than its capacity
InitOneToN == Init /\ MaxIDOf(rows) <= MaxBookmarks

SpecOneToN == InitOneToN /\ [][Next]_vars

(***************************************************************************)
(* AddTags and RemoveTags                                                  *)
(***************************************************************************)
\* The byte of a character
Byte(c) ==
    CASE c = Comma -> 44 [] c = "A" -> 65 [] c = "B" -> 66
      [] c = "a" -> 97 [] c = "b" -> 98

\* strings.ToLower
ToLower(str) ==
    [k \in 1 .. Len(str) |->
        CASE str[k] = "A" -> "a" [] str[k] = "B" -> "b" [] OTHER -> str[k]]

RECURSIVE StrLess(_, _)
\* x < y on strings
StrLess(x, y) ==
    IF y = <<>> THEN FALSE
    ELSE IF x = <<>> THEN TRUE
    ELSE IF Byte(Head(x)) # Byte(Head(y)) THEN Byte(Head(x)) < Byte(Head(y))
    ELSE StrLess(Tail(x), Tail(y))

\* The less function AddTags sorts with
TagLess(x, y) == StrLess(ToLower(x), ToLower(y))

RECURSIVE InsertTag(_, _)
\* One round of the insertion sort: x moves left past every tag it is less than.
InsertTag(sorted, x) ==
    IF sorted = <<>> THEN <<x>>
    ELSE IF TagLess(x, sorted[Len(sorted)])
    THEN Append(InsertTag(SubSeq(sorted, 1, Len(sorted) - 1), x), sorted[Len(sorted)])
    ELSE Append(sorted, x)

RECURSIVE SortTagsFrom(_, _)
SortTagsFrom(sorted, rest) ==
    IF rest = <<>> THEN sorted
    ELSE SortTagsFrom(InsertTag(sorted, Head(rest)), Tail(rest))

\* An AddTags that does not sort
SortTags_Unsorted(tags) == tags

\* sort.Slice(b.Tags, ...): on a slice of fewer than 12 elements an insertion
\* sort, which keeps equal tags in their order
SortTags(tags) == SortTagsFrom(<<>>, tags)

\* slices.Contains
Contains(slice, t) == \E k \in 1 .. Len(slice) : slice[k] = t

\* An AddTags that appends its whole argument
AddTagsString_NoFilter(bTags, tags) ==
    <<Comma>> \o Join(SortTags(bTags \o tags)) \o <<Comma>>

\* The tags column AddTags writes, from the tags it read and its argument
AddTagsString(bTags, tags) ==
    LET absent == SelectSeq(tags, LAMBDA t : ~Contains(bTags, t)) IN
    <<Comma>> \o Join(SortTags(bTags \o absent)) \o <<Comma>>

\* A RemoveTags that compares ignoring case
RemoveTagsString_IgnoreCase(bTags, tags) ==
    <<Comma>> \o Join(SelectSeq(bTags, LAMBDA t :
        ~\E k \in 1 .. Len(tags) : ToLower(tags[k]) = ToLower(t))) \o <<Comma>>

\* The tags column RemoveTags writes, from the tags it read and its argument
RemoveTagsString(bTags, tags) ==
    <<Comma>> \o Join(SelectSeq(bTags, LAMBDA t : ~Contains(tags, t))) \o <<Comma>>

\* The column a caller between its Get and its updateField is about to write
TagsString(c) ==
    IF c.pc = "AddTags" THEN AddTagsString(c.b.Tags, c.tags)
    ELSE RemoveTagsString(c.b.Tags, c.tags)

\* AddTags and RemoveTags, first half: b, err := db.Get(id), which takes and
\* releases db.mu; an error is returned at once.
TagsGet(p, op, id, tags) ==
    /\ UNCHANGED api
    /\ calls[p].pc = "idle"
    /\ conn = "open" /\ Lock
    /\ LET g == GetOutcome(rows, len, id) IN
         IF g.err # ErrNone
         THEN /\ ret' = Result(op, id, g.err, ZeroBookmark, <<>>)
              /\ UNCHANGED calls
         ELSE /\ calls' = [calls EXCEPT ![p] =
                              [pc |-> op, id |-> id, tags |-> tags, b |-> g.b]]
              /\ ret' = Pending(op)
    /\ execLog' = <<>>
    /\ UNCHANGED <<conn, rows, len, mu, numWorkers, wpc, bookmarksMap, processErr>>

\* AddTags and RemoveTags, second half: db.updateField(id, "tags", tagsStr),
\* which takes db.mu again.
TagsUpdate(p, fault) ==
    /\ UNCHANGED api
    /\ calls[p].pc # "idle"
    /\ conn = "open" /\ Lock
    /\ LET c == calls[p]
           u == updateFieldOutcome(rows, len, c.id, "tags", TagsString(c), fault)
       IN /\ rows' = u.rows
          /\ ret' = Result(c.pc, c.id, u.err, [ZeroBookmark EXCEPT !.Tags = c.tags], <<>>)
          /\ execLog' = u.log
    /\ calls' = [calls EXCEPT ![p] = Idle]
    /\ UNCHANGED <<conn, len, mu, numWorkers, wpc, bookmarksMap, processErr>>

\* Callers of the tag operations running at the same time: the tag lists
\* they pass, and the number of rows of the table the store is opened on
ConcTagArgs == { <<Tag("a")>>, <<Tag("b")>> }
MaxConcRows == 1

ConcInit ==
    /\ Data = ZeroData /\ Entries = <<>> /\ handled = NoInput
    /\ conn = "none"
    /\ rows \in {TestTable(m) : m \in 1 .. MaxConcRows}
    /\ len = 0
    /\ mu = "free"
    /\ numWorkers = 0
    /\ wpc = [i \in Workers |-> "idle"]
    /\ bookmarksMap = EmptyMap
    /\ processErr = 0
    /\ ret = NoCall
    /\ execLog = <<>>
    /\ calls = [p \in Clients |-> Idle]

ConcNext ==
    \/ \E fault \in OpenFaults : NewBukuDB(fault)
    \/ \E p \in Clients, id \in 0 .. MaxConcRows + 1, tags \in ConcTagArgs :
          TagsGet(p, "AddTags", id, tags)
    \/ \E p \in Clients, id \in 0 .. MaxConcRows + 1, tags \in ConcTagArgs :
          TagsGet(p, "RemoveTags", id, tags)
    \/ \E p \in Clients, fault \in BOOLEAN : TagsUpdate(p, fault)

ConcSpec == ConcInit /\ [][ConcNext]_vars

(***************************************************************************)
(* One caller: the field updates and the tag operations                    *)
(***************************************************************************)
UpdateTitle(id, title, fault) == updateField(id, "metadata", title, fault)

UpdateURL(id, url, fault) == updateField(id, "URL", url, fault)

UpdateComment(id, comment, fault) == updateField(id, "desc", comment, fault)

ClearTags(id, fault) == updateField(id, "tags", <<Comma>>, fault)

\* The caller, and whether it is between two calls
Caller == 1
Returned == calls[Caller].pc = "idle"

\* The tag operations of one caller.  The tag lists it passes: a tag three
\* times in two cases, an empty tag with an upper case one (getTagsFromInput
\* yields empty tags), and a tag that holds the delimiter
TagArgs ==
    { <<Tag("a"), Tag("a"), Tag("A")>>, <<NoTag, Tag("B")>>,
      << <<"a", Comma, "b">> >> }

\* The bookmark the caller adds
TagAddInputs == {b \in AddInputs : b.URL = "new.com"}

\* The number of rows of the table the store is opened on, and the longest
\* tags column AddTags is called on
MaxTagRows == 1
MaxTagsColumn == 5

TagInit ==
    /\ Data = ZeroData /\ Entries = <<>> /\ handled = NoInput
    /\ conn = "none"
    /\ rows \in {TestTable(m) : m \in 1 .. MaxTagRows}
    /\ len = 0
    /\ mu = "free"
    /\ numWorkers = 0
    /\ wpc = [i \in Workers |-> "idle"]
    /\ bookmarksMap = EmptyMap
    /\ processErr = 0
    /\ ret = NoCall
    /\ execLog = <<>>
    /\ calls = [p \in Clients |-> Idle]

TagNext ==
    \/ \E fault \in OpenFaults : NewBukuDB(fault)
    \/ Returned /\ \E b \in TagAddInputs, fault \in BOOLEAN : Add(b, fault)
    \/ Returned /\ \E id \in 0 .. MaxTagRows + 1, fault \in BOOLEAN : ClearTags(id, fault)
    \/ \E id \in 0 .. MaxTagRows + 1, tags \in TagArgs :
          /\ (id \in IDs /\ rows[id] # NoRow) => Len(rows[id].tags) <= MaxTagsColumn
          /\ TagsGet(Caller, "AddTags", id, tags)
    \/ \E id \in 0 .. MaxTagRows + 1, tags \in TagArgs :
          TagsGet(Caller, "RemoveTags", id, tags)
    \/ \E fault \in BOOLEAN : TagsUpdate(Caller, fault)

TagSpec == TagInit /\ [][TagNext]_vars

\* All the operations that take an id, of one caller.  The values it passes:
\* "b.com" is the URL of a row.
EditTitles == {"new title"}
EditURLs == {"new.com", "b.com"}
EditComments == {"new desc"}
EditTagArgs == { <<Tag("a")>> }

\* The number of rows of the table the store is opened on
MaxEditRows == 1
EditIDs == 0 .. MaxEditRows + 1

EditInit ==
    /\ Data = ZeroData /\ Entries = <<>> /\ handled = NoInput
    /\ conn = "none"
    /\ rows \in {TestTable(m) : m \in 1 .. MaxEditRows}
    /\ len = 0
    /\ mu = "free"
    /\ numWorkers = 0
    /\ wpc = [i \in Workers |-> "idle"]
    /\ bookmarksMap = EmptyMap
    /\ processErr = 0
    /\ ret = NoCall
    /\ execLog = <<>>
    /\ calls = [p \in Clients |-> Idle]

EditNext ==
    \/ \E fault \in OpenFaults : NewBukuDB(fault)
    \/ Returned /\ \E id \in EditIDs, failAt \in 0 .. MaxEditRows : Remove(id, failAt)
    \/ Returned /\ \E id \in EditIDs, v \in EditTitles, fault \in BOOLEAN :
          UpdateTitle(id, v, fault)
    \/ Returned /\ \E id \in EditIDs, v \in EditURLs, fault \in BOOLEAN :
          UpdateURL(id, v, fault)
    \/ Returned /\ \E id \in EditIDs, v \in EditComments, fault \in BOOLEAN :
          UpdateComment(id, v, fault)
    \/ Returned /\ \E id \in EditIDs, fault \in BOOLEAN : ClearTags(id, fault)
    \/ \E id \in EditIDs, tags \in EditTagArgs : TagsGet(Caller, "AddTags", id, tags)
    \/ \E id \in EditIDs, tags \in EditTagArgs : TagsGet(Caller, "RemoveTags", id, tags)
    \/ \E fault \in BOOLEAN : TagsUpdate(Caller, fault)

EditSpec == EditInit /\ [][EditNext]_vars

(***************************************************************************)
(* Properties of the store                                                 *)
(***************************************************************************)
\* The ids of the bookmarks a GetAll returns on table t with cached length n
GetAllIDs(t, n) ==
    LET l == loadBookmarks(t, n, 1) IN {l[k].ID : k \in 1 .. Len(l)}

\* The store was opened on a table with ids 1..N within its capacity: only
\* then is no row ever stored above the cached length.
OpenedOnOneToN == conn = "open" /\ \A i \in IDs : i > len => rows[i] = NoRow

\* C1: from persisted ids 1..N, after every Add or Remove that returns
\* success (failed calls may come before), GetAll returns the ids 1..Len().
C1_ContiguousAfterSuccess ==
    (OpenedOnOneToN /\ ret.op \in {"Add", "Remove"} /\ ret.err = ErrNone)
        => GetAllIDs(rows, len) = 1 .. len

\* What Get returned for a row, under the id j
Renumbered(g, j) == IF g.err = ErrNone THEN [g EXCEPT !.b.ID = j] ELSE g

\* C2: a successful Remove(id) leaves Len() one less, the records below id as
\* they were, every record above id one id lower with its fields unchanged,
\* and the removed record returned by no Get and not by GetAll.
C2_RemoveShiftsDown ==
    [][(ret'.op = "Remove" /\ ret'.err = ErrNone) =>
        LET id == ret'.id
            all == loadBookmarks(rows', len', 1)
        IN  /\ 1 <= id /\ id <= len
            /\ len' = len - 1
            /\ \A j \in 1 .. id - 1 :
                  GetOutcome(rows', len', j) = GetOutcome(rows, len, j)
            /\ \A j \in id .. len - 1 :
                  GetOutcome(rows', len', j) = Renumbered(GetOutcome(rows, len, j + 1), j)
            /\ rows[id] # NoRow =>
                  /\ \A j \in CallIDs :
                        GetOutcome(rows', len', j).b.URL # rows[id].url
                  /\ \A k \in 1 .. Len(all) : all[k].URL # rows[id].url
      ]_vars

\* A Remove has returned success and has moved a record to a lower id.
C2_Witness ==
    /\ ret.op = "Remove" /\ ret.err = ErrNone
    /\ ret.id <= len /\ rows[ret.id] # NoRow
    /\ \E k \in 1 .. Len(execLog) : execLog[k].stmt = "UPDATE id" /\ execLog[k].ok

\* C3 as stated: a successful Add(b) stores b under id N+1 whatever b.ID is,
\* and Get(N+1) then returns b's url, title, tags and comment.
C3_AddRoundTrip ==
    [][(ret'.op = "Add" /\ ret'.err = ErrNone) =>
        LET g == GetOutcome(rows', len', len + 1) IN
            /\ len < MaxBookmarks
            /\ len' = len + 1
            /\ g.err = ErrNone
            /\ g.b.ID = len + 1
            /\ g.b.URL = ret'.b.URL
            /\ g.b.Title = ret'.b.Title
            /\ g.b.Tags = ret'.b.Tags
            /\ g.b.Comment = ret'.b.Comment
      ]_vars

\* No tag of the list holds the delimiter.
NoDelimiter(tags) ==
    \A k \in 1 .. Len(tags) : \A c \in 1 .. Len(tags[k]) : tags[k][c] # Comma

\* C3 as amended: a successful Add(b) stores b under id N+1 whatever b.ID is,
\* and Get(N+1) then returns b's url, title and comment and, when no tag of b
\* holds the delimiter, b's tags without the empty ones.
C3_AddRoundTripNonEmptyTags ==
    [][(ret'.op = "Add" /\ ret'.err = ErrNone) =>
        LET g == GetOutcome(rows', len', len + 1) IN
            /\ len < MaxBookmarks
            /\ len' = len + 1
            /\ g.err = ErrNone
            /\ g.b.ID = len + 1
            /\ g.b.URL = ret'.b.URL
            /\ g.b.Title = ret'.b.Title
            /\ NoDelimiter(ret'.b.Tags) => g.b.Tags = FilterNonEmpty(ret'.b.Tags)
            /\ g.b.Comment = ret'.b.Comment
      ]_vars

\* An Add of a bookmark with an empty tag among its tags and with another id
\* than N+1 has succeeded.
C3_Witness ==
    /\ ret.op = "Add" /\ ret.err = ErrNone
    /\ Contains(ret.b.Tags, NoTag) /\ ret.b.ID # len
    /\ rows[len] # NoRow

\* C5: a successful GetAll returns Len() bookmarks, the one of each id in
\* 1..N, in ascending order of id, whatever the number of workers and the
\* order in which they finish.
C5_GetAllOneToN ==
    (ret.op = "GetAll" /\ ret.err = ErrNone) =>
        /\ Len(ret.list) = len
        /\ \A k \in 1 .. Len(ret.list) : ret.list[k].ID = k

\* A worker of the loader has started and has not been joined.
LoaderRunning == \E i \in Workers : wpc[i] # "idle"

\* C6: from the start of the loader's workers to their join the store's lock
\* is held, no operation changes the table or the cached length in between,
\* and the list returned is the content of the table at one instant.
C6_GetAllUnderLock ==
    /\ [](LoaderRunning => mu = "GetAll")
    /\ [][(mu = "GetAll") => (rows' = rows /\ len' = len)]_vars
    /\ []((ret.op = "GetAll" /\ ret.err = ErrNone) =>
            \A w \in 1 .. MaxWorkers : ret.list = loadBookmarks(rows, len, w))

\* Workers of a GetAll are running, some done and some not, on a table Add
\* and Remove could change.
C6_Witness ==
    /\ mu = "GetAll" /\ len >= 1 /\ len < MaxBookmarks
    /\ \E i, j \in Workers : wpc[i] = "done" /\ wpc[j] = "run"
    /\ bookmarksMap # EmptyMap

\* C7: an Add that returns an error leaves Len() and the table as they were,
\* and Add at full capacity always returns the capacity error.
C7_FailedAddChangesNothing ==
    [][(ret'.op = "Add") =>
        /\ ret'.err # ErrNone => (len' = len /\ rows' = rows)
        /\ len = MaxBookmarks => (ret'.err = ErrMax /\ len' = MaxBookmarks)
      ]_vars

\* An Add has failed on its INSERT.
C7_Witness ==
    /\ ret.op = "Add" /\ ret.err = ErrInsert
    /\ execLog = <<Exec("INSERT", len + 1, FALSE)>>

RECURSIVE ApplyExecs(_, _)
\* The table after the Execs of log that succeeded
ApplyExecs(t, log) ==
    IF log = <<>> THEN t
    ELSE LET e == Head(log)
             u == IF ~e.ok THEN t
                  ELSE IF e.stmt = "DELETE" THEN DeleteRow(t, e.id)
                  ELSE IF t[e.id] = NoRow THEN t
                  ELSE MoveRow(t, e.id - 1, e.id)
         IN ApplyExecs(u, Tail(log))

\* C8: a Remove one of whose Execs fails returns an error, leaves the cached
\* length as it was, and keeps the effect of the Execs that succeeded.
C8_FailedRemoveSurfaces ==
    [][(ret'.op = "Remove" /\ \E k \in 1 .. Len(execLog') : ~execLog'[k].ok) =>
        /\ ret'.err # ErrNone
        /\ len' = len
        /\ rows' = ApplyExecs(rows, execLog')
      ]_vars

\* A Remove has failed after its DELETE and one renumbering succeeded.
C8_Witness ==
    /\ ret.op = "Remove" /\ ret.err = ErrRenumber
    /\ Len(execLog) = 3 /\ execLog[2].ok /\ ~execLog[3].ok
    /\ rows[ret.id] # NoRow

\* C9: whenever no call is in progress on the opened store, the persisted ids
\* are 1..N for the cached length N.
C9_PersistedOneToN ==
    (conn = "open" /\ mu = "free") => PersistedIDs(rows) = 1 .. len

\* C10: with N >= 1, Get(0) and Get(id) for id > N return the out-of-range
\* error and no record, and Get(N) succeeds.
C10_GetRange ==
    (ret.op = "Get" /\ len >= 1) =>
        /\ (ret.id = 0 \/ ret.id > len) => (ret.err = ErrRange /\ ret.b = ZeroBookmark)
        /\ ret.id = len => ret.err = ErrNone

\* C11: when a worker of the loader has failed, GetAll returns an error and
\* the empty list, whatever the other workers stored, and GetAll returns only
\* when each of its W workers has returned.
C11_FailedLoadReturnsNothing ==
    [][(ret.op = "GetAll" /\ ret.err = ErrPending /\ ret'.err # ErrPending) =>
        /\ \A i \in Workers : i < numWorkers => wpc[i] \in {"done", "failed"}
        /\ (\E i \in Workers : wpc[i] = "failed") =>
              (ret'.err = ErrLoad /\ ret'.list = <<>>)
      ]_vars

\* All workers of a GetAll have returned, one of them with an error and
\* another after it stored its rows.
C11_Witness ==
    /\ mu = "GetAll" /\ bookmarksMap # EmptyMap
    /\ \E i, j \in Workers : wpc[i] = "failed" /\ wpc[j] = "done"
    /\ \A i \in Workers : wpc[i] # "run"

\* C12: an Add of a bookmark whose URL a stored bookmark has returns no error
\* and leaves Len() and the table as they were.
C12_DuplicateAddSilent ==
    [][(ret'.op = "Add" /\ URLTaken(rows, ret'.b.URL, 0)) =>
        (ret'.err = ErrNone /\ len' = len /\ rows' = rows)
      ]_vars

\* The tags Get returns for row id of table t
TagsOf(t, id) == GetTags(t[id].tags)

\* C4: AddTags and RemoveTags take effect atomically among concurrent
\* callers: at its write, a call stores the tags stored just before the
\* write merged with, or reduced by, its argument, so that the tags of no
\* other call are lost.
C4_TagOpsAtomic ==
    [][\A p \in Clients :
        (calls[p].pc # "idle" /\ calls'[p].pc = "idle" /\ ret'.err = ErrNone) =>
            LET c == calls[p] IN
            rows'[c.id].tags =
                TagsString([c EXCEPT !.b.Tags = TagsOf(rows, c.id)])
      ]_vars

(***************************************************************************)
(* Properties of the tag operations and the field updates                  *)
(***************************************************************************)
\* The elements of a list
Range(seq) == {seq[k] : k \in 1 .. Len(seq)}

\* The caller's AddTags or RemoveTags returns success in this step.
TagsWritten(op) ==
    calls[Caller].pc = op /\ calls'[Caller].pc = "idle" /\ ret'.err = ErrNone

\* The list is in ascending order ignoring case.
Ascending(tags) ==
    \A j, k \in 1 .. Len(tags) : j < k => ~TagLess(tags[k], tags[j])

\* The step changes nothing but the tags of row id.
OnlyTagsChange(id) ==
    /\ len' = len
    /\ \A j \in IDs : j # id => rows'[j] = rows[j]
    /\ id \in IDs =>
          IF rows[id] = NoRow THEN rows'[id] = NoRow
          ELSE /\ rows'[id] # NoRow
               /\ rows'[id] = [rows[id] EXCEPT !.tags = rows'[id].tags]

\* C13: after a successful AddTags(id, tags), with tags that may repeat a tag
\* or hold it in two cases (and none of which holds the delimiter), no two
\* stored tags of bookmark id are equal ignoring case.
C13_NoCaseDuplicates ==
    (ret.op = "AddTags" /\ ret.err = ErrNone /\ NoDelimiter(ret.b.Tags)) =>
        LET t == TagsOf(rows, ret.id) IN
        \A j, k \in 1 .. Len(t) : j # k => ToLower(t[j]) # ToLower(t[k])

\* C14 as stated: for every tag list T, a second AddTags(id, T) right after a
\* successful one would store the tags that are stored.
C14_AddTagsIdempotent ==
    [][TagsWritten("AddTags") =>
        LET c == calls[Caller] IN
        AddTagsString(TagsOf(rows', c.id), c.tags) = rows'[c.id].tags
      ]_vars

\* C14 as amended: for every list T of tags without the delimiter, a second
\* AddTags(id, T) right after a successful one would store the tags that are
\* stored.
C14_AddTagsIdempotentNoDelimiter ==
    [][TagsWritten("AddTags") =>
        LET c == calls[Caller] IN
        NoDelimiter(c.tags) =>
            AddTagsString(TagsOf(rows', c.id), c.tags) = rows'[c.id].tags
      ]_vars

\* An AddTags with a tag in two cases and twice has succeeded on a bookmark
\* that had another tag.
C14_Witness ==
    /\ ret.op = "AddTags" /\ ret.err = ErrNone
    /\ ret.b.Tags = <<Tag("a"), Tag("a"), Tag("A")>>
    /\ Len(TagsOf(rows, ret.id)) > 3

\* C15 as stated: after a successful AddTags(id, T), Get(id) returns the tags
\* stored before and the tags of T, in ascending order ignoring case, and
\* nothing but the tags of bookmark id has changed.
C15_AddTagsMerges ==
    [][TagsWritten("AddTags") =>
        LET c == calls[Caller]
            g == GetOutcome(rows', len', c.id)
        IN  /\ g.err = ErrNone
            /\ Range(g.b.Tags) = Range(TagsOf(rows, c.id)) \cup Range(c.tags)
            /\ Ascending(g.b.Tags)
            /\ OnlyTagsChange(c.id)
      ]_vars

\* C15 as amended: after a successful AddTags(id, T), nothing but the tags of
\* bookmark id has changed and, when no tag of T holds the delimiter, Get(id)
\* returns the tags stored before and the non-empty tags of T, in ascending
\* order ignoring case.
C15_AddTagsMergesNonEmpty ==
    [][TagsWritten("AddTags") =>
        LET c == calls[Caller]
            g == GetOutcome(rows', len', c.id)
        IN  /\ g.err = ErrNone
            /\ NoDelimiter(c.tags) =>
                  /\ Range(g.b.Tags) =
                        Range(TagsOf(rows, c.id)) \cup (Range(c.tags) \ {NoTag})
                  /\ Ascending(g.b.Tags)
            /\ OnlyTagsChange(c.id)
      ]_vars

\* An AddTags with an empty tag among its tags has succeeded on a bookmark
\* with tags of its own, next to another bookmark.
C15_Witness ==
    /\ ret.op = "AddTags" /\ ret.err = ErrNone
    /\ Contains(ret.b.Tags, NoTag)
    /\ Len(TagsOf(rows, ret.id)) >= 3
    /\ \E j \in IDs : j # ret.id /\ rows[j] # NoRow

\* C16: after a successful RemoveTags(id, T), Get(id) returns the tags stored
\* before that are no element of T, in the order they had.
C16_RemoveTagsExact ==
    [][TagsWritten("RemoveTags") =>
        LET c == calls[Caller]
            g == GetOutcome(rows', len', c.id)
        IN  /\ g.err = ErrNone
            /\ g.b.Tags = SelectSeq(TagsOf(rows, c.id),
                                    LAMBDA t : t \notin Range(c.tags))
      ]_vars

\* A RemoveTags of an upper case tag has succeeded and has left the lower
\* case one.
C16_Witness ==
    /\ ret.op = "RemoveTags" /\ ret.err = ErrNone
    /\ Contains(ret.b.Tags, Tag("B"))
    /\ Contains(TagsOf(rows, ret.id), Tag("b"))

\* C17: after a successful ClearTags(id), Get(id) returns no tags, and
\* nothing but the tags of bookmark id has changed.
C17_ClearTagsFrame ==
    [][(ret'.op = "updateField" /\ ret'.err = ErrNone
            /\ execLog' = <<Exec("tags", ret'.id, TRUE)>>) =>
        /\ GetOutcome(rows', len', ret'.id).b.Tags = <<>>
        /\ OnlyTagsChange(ret'.id)
      ]_vars

\* A ClearTags has succeeded on a bookmark with a comment, next to a bookmark
\* with tags.
C17_Witness ==
    /\ ret.op = "updateField" /\ ret.err = ErrNone
    /\ execLog = <<Exec("tags", ret.id, TRUE)>>
    /\ rows[ret.id] # NoRow /\ rows[ret.id].desc # ""
    /\ \E j \in IDs : j # ret.id /\ rows[j] # NoRow /\ TagsOf(rows, j) # <<>>

\* The wrapped form of a tags column: the delimiter, the tags joined by the
\* delimiter, the delimiter; two delimiters for no tags.
Wrapped(tagsString) ==
    /\ Len(tagsString) >= 2
    /\ tagsString[1] = Comma /\ tagsString[Len(tagsString)] = Comma
    /\ GetTags(tagsString) = <<>> => tagsString = <<Comma, Comma>>

\* C18: every tags column that Add, AddTags, RemoveTags or ClearTags writes
\* is in the wrapped form.
C18_WritesWrapped ==
    [][\A k \in 1 .. Len(execLog') :
        (execLog'[k].ok /\ execLog'[k].stmt \in {"INSERT", "tags"}
            /\ rows'[execLog'[k].id] # NoRow) =>
            Wrapped(rows'[execLog'[k].id].tags)
      ]_vars

\* The field of a Bookmark that a column holds
FieldOf(b, field) ==
    CASE field = "metadata" -> b.Title
      [] field = "URL" -> b.URL
      [] field = "desc" -> b.Comment

\* C19: a successful UpdateTitle, UpdateURL or UpdateComment(id, v) makes v
\* the named field of bookmark id and changes nothing else.
C19_UpdateChangesField ==
    [][\A id \in CallIDs, u \in Updates :
        (updateField(id, u.field, u.value, FALSE) /\ ret'.err = ErrNone) =>
            /\ FieldOf(GetOutcome(rows', len', id).b, u.field) = u.value
            /\ len' = len
            /\ \A j \in IDs : j # id => rows'[j] = rows[j]
            /\ rows[id] # NoRow =>
                  rows'[id] = SetField(rows[id], u.field, u.value)
      ]_vars

\* C20: Remove, the field updates and the tag operations, called with id 0 or
\* an id above N, return the out-of-range error, run no Exec and leave the
\* table and N as they were.
C20_OutOfRangeNoWrite ==
    [][(ret'.op \in {"Remove", "updateField", "AddTags", "RemoveTags"}
            /\ ret'.err # ErrPending
            /\ (ret'.id = 0 \/ ret'.id > len)) =>
        /\ ret'.err = ErrRange
        /\ execLog' = <<>>
        /\ rows' = rows /\ len' = len
      ]_vars

\* An update with the id after the last has returned the out-of-range error
\* on a store with a bookmark.
C20_Witness ==
    /\ ret.op = "updateField" /\ ret.err = ErrRange
    /\ len >= 1 /\ ret.id = len + 1


(***************************************************************************)
(* Opening and closing the store                                           *)
(***************************************************************************)
\* db.Len(): the cached length, returned in the id field of the result
DBLen ==
    /\ UNCHANGED api
    /\ conn = "open" /\ Lock
    /\ ret' = Result("Len", len, ErrNone, ZeroBookmark, <<>>)
    /\ execLog' = <<>>
    /\ UNCHANGED <<conn, rows, len, mu, numWorkers, wpc, bookmarksMap,
                   processErr, calls>>

\* db.Close(): db.conn.Close(), with no db.mu.Lock() before it
Close ==
    /\ UNCHANGED api
    /\ conn = "open"
    /\ conn' = "closed"
    /\ ret' = Result("Close", 0, ErrNone, ZeroBookmark, <<>>)
    /\ UNCHANGED <<rows, len, mu, numWorkers, wpc, bookmarksMap, processErr,
                   execLog, calls>>

\* The store is opened, read and closed; the query of a goroutine that
\* starts after Close fails.
OpenNext ==
    \/ \E fault \in OpenFaults : NewBukuDB(fault)
    \/ DBLen
    \/ \E id \in CallIDs : Get(id)
    \/ \E w \in 1 .. MaxWorkers : GetAll(w)
    \/ \E i \in Workers, fault \in LoadFaults :
          /\ conn = "closed" => fault = "query"
          /\ processBookmarkRange(i, fault)
    \/ loadBookmarksReturn
    \/ Close

OpenSpec == Init /\ [][OpenNext]_vars

\* C21: after a successful NewBukuDB on a table whose largest id is M >= 1,
\* Len() is min(M, MaxBookmarks); if the query of the maximum id fails (a
\* storage fault, or the NULL of an empty table), NewBukuDB returns an error
\* and no store.
C21_OpenSeedsLen ==
    /\ [](ret.op = "Len" =>
            /\ MaxIDOf(rows) >= 1
            /\ ret.id = Min(MaxIDOf(rows), MaxBookmarks))
    /\ [][\A fault \in OpenFaults : NewBukuDB(fault) =>
            /\ ret'.err = ErrNone =>
                  /\ conn' = "open"
                  /\ MaxIDOf(rows) >= 1
                  /\ len' = Min(MaxIDOf(rows), MaxBookmarks)
            /\ (fault = "query" \/ MaxIDOf(rows) = 0) =>
                  ret'.err # ErrNone /\ conn' = "failed"]_vars

\* Len() returns the capacity on a table whose largest id is above it
C21_Witness ==
    /\ ret.op = "Len"
    /\ MaxIDOf(rows) > MaxBookmarks
    /\ ret.id = MaxBookmarks

Todo(i) ==
    Between(rows, RangeStart(i, len, numWorkers), RangeEnd(i, len, numWorkers))
        \ DOMAIN bookmarksMap

\* A mu.Lock() of the loader that does not wait for the mutex
processBookmarkRangeLock_NoWait(i) ==
    /\ UNCHANGED api
    /\ wpc[i] = "run"
    /\ Todo(i) # {}
    /\ wpc' = [wpc EXCEPT ![i] = "locked"]
    /\ UNCHANGED <<conn, rows, len, mu, numWorkers, bookmarksMap, processErr,
                   ret, execLog, calls>>

\* processBookmarkRange, row by row: rows.Next(), rows.Scan(...) and
\* mu.Lock(), which returns when no goroutine holds the loader's mutex
processBookmarkRangeLock(i) ==
    /\ UNCHANGED api
    /\ wpc[i] = "run"
    /\ Todo(i) # {}
    /\ \A j \in Workers : wpc[j] # "locked"
    /\ wpc' = [wpc EXCEPT ![i] = "locked"]
    /\ UNCHANGED <<conn, rows, len, mu, numWorkers, bookmarksMap, processErr,
                   ret, execLog, calls>>

\* bookmarksMap[b.ID] = b and mu.Unlock()
processBookmarkRangeStore(i) ==
    /\ UNCHANGED api
    /\ wpc[i] = "locked"
    /\ LET id == CHOOSE x \in Todo(i) : \A y \in Todo(i) : x <= y IN
         bookmarksMap' = StoreIDs(bookmarksMap, rows, {id})
    /\ wpc' = [wpc EXCEPT ![i] = "run"]
    /\ UNCHANGED <<conn, rows, len, mu, numWorkers, processErr, ret, execLog,
                   calls>>

\* processBookmarkRange returns, after the last row or at a failed Query or
\* Scan; the goroutine assigns processErr and calls wg.Done().
processBookmarkRangeReturn(i, fault) ==
    /\ UNCHANGED api
    /\ wpc[i] = "run"
    /\ fault = "none" => Todo(i) = {}
    /\ wpc' = [wpc EXCEPT ![i] = IF fault = "none" THEN "done" ELSE "failed"]
    /\ processErr' = SetProcessErr(processErr, i, fault)
    /\ UNCHANGED <<conn, rows, len, mu, numWorkers, bookmarksMap, ret, execLog,
                   calls>>

\* The tag list the callers pass and the number of rows of the table
LiveTagArgs == { <<Tag("a")>> }
MaxLiveRows == 2

LiveInit ==
    /\ Data = ZeroData /\ Entries = <<>> /\ handled = NoInput
    /\ conn = "none"
    /\ rows \in {TestTable(m) : m \in 1 .. MaxLiveRows}
    /\ len = 0
    /\ mu = "free"
    /\ numWorkers = 0
    /\ wpc = [i \in Workers |-> "idle"]
    /\ bookmarksMap = EmptyMap
    /\ processErr = 0
    /\ ret = NoCall
    /\ execLog = <<>>
    /\ calls = [p \in Clients |-> Idle]

\* runtime.NumCPU() on the machine of this specification
NumCPU == 2

\* One caller of AddTags and RemoveTags on row 1, and callers of GetAll
LiveNext ==
    \/ \E fault \in OpenFaults : NewBukuDB(fault)
    \/ \E tags \in LiveTagArgs : TagsGet(Caller, "AddTags", 1, tags)
    \/ \E tags \in LiveTagArgs : TagsGet(Caller, "RemoveTags", 1, tags)
    \/ \E fault \in BOOLEAN : TagsUpdate(Caller, fault)
    \/ GetAll(NumCPU)
    \/ \E i \in Workers : processBookmarkRangeLock(i)
    \/ \E i \in Workers : processBookmarkRangeStore(i)
    \/ \E i \in Workers, fault \in LoadFaults : processBookmarkRangeReturn(i, fault)
    \/ loadBookmarksReturn

\* Every started goroutine runs and its storage calls return (weak fairness
\* of its steps); wg.Wait() returns when the goroutines are done; a caller
\* blocked in db.mu.Lock() gets the mutex although others take it again and
\* again, which sync.Mutex ensures by handing it to a waiter that starves
\* (strong fairness).
LiveFairness ==
    /\ \A i \in Workers : WF_vars(processBookmarkRangeLock(i))
    /\ \A i \in Workers : WF_vars(processBookmarkRangeStore(i))
    /\ \A i \in Workers :
          WF_vars(\E fault \in LoadFaults : processBookmarkRangeReturn(i, fault))
    /\ WF_vars(loadBookmarksReturn)
    /\ SF_vars(\E fault \in BOOLEAN : TagsUpdate(Caller, fault))

LiveSpec == LiveInit /\ [][LiveNext]_vars /\ LiveFairness

\* C23: every store call returns: an AddTags or RemoveTags that has done its
\* Get gets db.mu a second time and returns, a goroutine of the loader
\* that waits for the loader's mutex gets it, and a GetAll that holds db.mu
\* while it waits for its goroutines returns and releases it.
C23_CallsTerminate ==
    /\ (calls[Caller].pc # "idle") ~> (calls[Caller].pc = "idle")
    /\ \A i \in Workers : (wpc[i] \in {"run", "locked"}) ~> (wpc[i] = "idle")
    /\ (mu = "GetAll") ~> (mu = "free" /\ ret.op = "GetAll" /\ ret.err # ErrPending)

\* A caller of AddTags waits for db.mu, which GetAll holds, while one
\* goroutine of the loader holds the loader's mutex and another waits for it
C23_Witness ==
    /\ calls[Caller].pc = "AddTags"
    /\ mu = "GetAll"
    /\ \E i, j \in Workers :
          wpc[i] = "locked" /\ wpc[j] = "run" /\ Todo(j) # {}


(***************************************************************************)
(* The input handler: text                                                 *)
(***************************************************************************)
\* The strings of the input handler are sequences of characters.
opExit == <<"-", "-", ">", " ", "E", "x", "i", "t">>
opBack == <<"<", "-", "-", " ", "B", "a", "c", "k">>
opConfirm == <<"-", "-", ">", " ", "C", "o", "n", "f", "i", "r", "m">>
opDelete == <<"-", "-", ">", " ", "D", "e", "l", "e", "t", "e">>

\* const entryMaxLen = 100, scaled down
entryMaxLen == 8

\* numPadding := len(fmt.Sprint(bukudb.MaxBookmarks)), of the 1000 of the source
numPadding == 4

Digits == <<"0", "1", "2", "3", "4", "5", "6", "7", "8", "9">>
IsDigit(c) == \E d \in 1 .. 10 : Digits[d] = c
DigitValue(c) == (CHOOSE d \in 1 .. 10 : Digits[d] = c) - 1

RECURSIVE Sprint(_)
\* fmt.Sprint(n) of a number
Sprint(n) ==
    IF n < 10 THEN <<Digits[n + 1]>>
    ELSE Append(Sprint(n \div 10), Digits[(n % 10) + 1])

RECURSIVE PadLeft(_, _)
\* for j := len(id); j < numPadding; j++ { id = "0" + id }
PadLeft(id, n) == IF Len(id) >= n THEN id ELSE PadLeft(<<"0">> \o id, n)

RECURSIVE Decimal(_, _)
Decimal(str, acc) ==
    IF str = <<>> THEN acc
    ELSE Decimal(Tail(str), 10 * acc + DigitValue(Head(str)))

\* strconv.ParseUint(str, 10, 16)
ParseUint(str) ==
    IF str = <<>> \/ (\E k \in 1 .. Len(str) : ~IsDigit(str[k])) \/ Len(str) > 5
    THEN [err |-> TRUE, value |-> 0]
    ELSE IF Decimal(str, 0) >= IDMod THEN [err |-> TRUE, value |-> 0]
    ELSE [err |-> FALSE, value |-> Decimal(str, 0)]

RECURSIVE SplitFirst(_, _)
\* strings.Split(str, sep)[0]
SplitFirst(str, sep) ==
    IF str = <<>> \/ Head(str) = sep THEN <<>>
    ELSE <<Head(str)>> \o SplitFirst(Tail(str), sep)

\* getIdFromBookmarkString
getIdFromBookmarkString(input) == ParseUint(SplitFirst(input, "."))

IsSpace(c) == c \in {" ", "\n", "\t"}

RECURSIVE TrimLeft(_)
TrimLeft(str) ==
    IF str # <<>> /\ IsSpace(Head(str)) THEN TrimLeft(Tail(str)) ELSE str

RECURSIVE TrimRight(_)
TrimRight(str) ==
    IF str # <<>> /\ IsSpace(str[Len(str)])
    THEN TrimRight(SubSeq(str, 1, Len(str) - 1)) ELSE str

\* strings.TrimSpace
TrimSpace(str) == TrimRight(TrimLeft(str))

\* strings.HasPrefix and strings.TrimPrefix
HasPrefix(str, prefix) ==
    Len(str) >= Len(prefix) /\ SubSeq(str, 1, Len(prefix)) = prefix

TrimPrefix(str, prefix) ==
    IF HasPrefix(str, prefix) THEN SubSeq(str, Len(prefix) + 1, Len(str)) ELSE str

RECURSIVE JoinWith(_, _)
\* strings.Join(elems, sep)
JoinWith(elems, sep) ==
    IF elems = <<>> THEN <<>>
    ELSE IF Len(elems) = 1 THEN Head(elems)
    ELSE Head(elems) \o sep \o JoinWith(Tail(elems), sep)

\* getTagsFromInput: strings.Split(input, ",") and strings.TrimSpace of each
getTagsFromInput(input) ==
    LET tags == Split(input) IN [k \in 1 .. Len(tags) |-> TrimSpace(tags[k])]

\* A truncateEnd that cuts nothing
truncateEnd_Whole(str, l) == str

\* truncateEnd: s[0:l] of a string longer than l
truncateEnd(str, l) == IF Len(str) > l /\ l >= 0 THEN SubSeq(str, 1, l) ELSE str

\* replaceNewlines: strings.ReplaceAll(s, "\n", " ")
replaceNewlines(str) ==
    [k \in 1 .. Len(str) |-> IF str[k] = "\n" THEN " " ELSE str[k]]

formatEntryText(e) == replaceNewlines(truncateEnd(e, entryMaxLen))

\* The scheme of a URL, as url.Parse finds it: the letters before the first
\* ":" (<<>> if there is none, or something else than letters before it)
SchemeOf(rawURL) ==
    LET first == SplitFirst(rawURL, ":") IN
    IF Len(first) < Len(rawURL) /\ first # <<>>
          /\ \A k \in 1 .. Len(first) : first[k] \in {"h", "t", "p", "s", "f"}
    THEN first ELSE <<>>

\* cleanURL: url.Parse(rawURL), Scheme = "", the "www." cut off the Host,
\* String(), and the "//" before the host cut off.  Without a scheme the
\* whole of rawURL is the path, and stays as it is.
cleanURL(rawURL) ==
    IF SchemeOf(rawURL) = <<>> THEN rawURL
    ELSE LET rest == SubSeq(rawURL, Len(SchemeOf(rawURL)) + 2, Len(rawURL)) IN
         IF HasPrefix(rest, <<"/", "/">>)
         THEN TrimPrefix(TrimPrefix(rest, <<"/", "/">>), <<"w", "w", "w", ".">>)
         ELSE rest


(***************************************************************************)
(* The input handler: states, entries and handlers                         *)
(***************************************************************************)
StateNull == "Null"
StateErrorShow == "ErrorShow"
StateErrorSelect == "ErrorSelect"
StateBookmarksShow == "BookmarksShow"
StateBookmarksSelect == "BookmarksSelect"
StateAddShow == "AddShow"
StateAddSelect == "AddSelect"
StateAddTitleShow == "AddTitleShow"
StateAddTitleSelect == "AddTitleSelect"
StateAddUrlShow == "AddUrlShow"
StateAddUrlSelect == "AddUrlSelect"
StateAddCommentShow == "AddCommentShow"
StateAddCommentSelect == "AddCommentSelect"
StateAddTagsShow == "AddTagsShow"
StateAddTagsSelect == "AddTagsSelect"
StateGotoExec == "GotoExec"
StateModifyShow == "ModifyShow"
StateModifySelect == "ModifySelect"
StateModifyTitleShow == "ModifyTitleShow"
StateModifyTitleSelect == "ModifyTitleSelect"
StateModifyUrlShow == "ModifyUrlShow"
StateModifyUrlSelect == "ModifyUrlSelect"
StateModifyCommentShow == "ModifyCommentShow"
StateModifyCommentSelect == "ModifyCommentSelect"
StateModifyTagsShow == "ModifyTagsShow"
StateModifyTagsSelect == "ModifyTagsSelect"
StateDeleteConfirmShow == "DeleteConfirmShow"
StateDeleteConfirmSelect == "DeleteConfirmSelect"

\* rofiapi.State: how rofi's user chose the input
StateSelected == "Selected"
StateCustomInput == "CustomInput"
StateCustomKeybinding1 == "CustomKeybinding1"
StateCustomKeybinding2 == "CustomKeybinding2"
StateCustomKeybinding3 == "CustomKeybinding3"
RofiStates == {StateSelected, StateCustomInput, StateCustomKeybinding1,
               StateCustomKeybinding2, StateCustomKeybinding3}

\* bukudb.Bookmark{}, its strings being sequences of characters
BlankBookmark ==
    [ID |-> 0, URL |-> <<>>, Title |-> <<>>, Tags |-> <<>>, Comment |-> <<>>]

\* rofiapi.Entry
Entry(text, meta) == [Text |-> text, Meta |-> meta]

\* What one HandleInput works on: api.Data and api.Entries, the table and
\* the length of the store behind in.db, the calls of the store it has made
\* (calls, and log: the Exec statements of the last call that writes), the
\* browser launch, and whether it has stopped with a runtime panic.
World(data, entries, t, n) ==
    [Data |-> data, Entries |-> entries, rows |-> t, len |-> n,
     calls |-> <<>>, log |-> <<>>, exec |-> "none", panic |-> FALSE]

\* The call of a method of in.db, as handled.calls keeps it (the id of a
\* Len is the length it returned)
Call(w, op, id, err) ==
    [w EXCEPT !.calls = Append(@, [op |-> op, id |-> id, err |-> err])]

\* The faults of the environment of one HandleInput: none, the store call
\* that writes fails, GetAll fails, or the browser does not start.
HandlerFaults == {"none", "write", "GetAll", "exec"}

\* SetMessageToError: api.Entries = [{Text: opExit}], State = StateErrorShow
SetMessageToError(w) ==
    [w EXCEPT !.Entries = <<Entry(opExit, <<>>)>>, !.Data.State = StateErrorShow]

\* A list entry that has the URL in its metadata whatever the title
BookmarkEntry_AlwaysURL(b) ==
    LET id == PadLeft(Sprint(b.ID), numPadding)
        tags == JoinWith(b.Tags, <<" ">>)
        text == IF b.Title = <<>> THEN b.URL ELSE b.Title
        meta == IF tags # <<>> THEN tags \o <<" ">> \o cleanURL(b.URL)
                ELSE cleanURL(b.URL)
    IN Entry(formatEntryText(id \o <<".", " ">> \o text), meta)

\* HandleBookmarksShow, the body of its loop: the entry of bookmark b
BookmarkEntry(b) ==
    LET id == PadLeft(Sprint(b.ID), numPadding)
        tags == JoinWith(b.Tags, <<" ">>)
        text == IF b.Title = <<>> THEN b.URL ELSE b.Title
        meta == IF b.Title = <<>> THEN tags
                ELSE IF tags # <<>> THEN tags \o <<" ">> \o cleanURL(b.URL)
                ELSE cleanURL(b.URL)
    IN Entry(formatEntryText(id \o <<".", " ">> \o text), meta)

\* HandleBookmarksShow: in.db.GetAll(), an entry for each bookmark,
\* State = StateBookmarksSelect and Bookmark = bukudb.Bookmark{}
HandleBookmarksShow(w, fault) ==
    IF fault = "GetAll"
    THEN SetMessageToError(Call(w, "GetAll", 0, ErrLoad))
    ELSE LET all == loadBookmarks(w.rows, w.len, NumCPU)
             w1 == Call(Call(w, "GetAll", 0, ErrNone), "Len", w.len, ErrNone)
         IN [w1 EXCEPT !.Entries = [k \in 1 .. Len(all) |-> BookmarkEntry(all[k])],
                       !.Data = [Bookmark |-> BlankBookmark,
                                 State |-> StateBookmarksSelect]]

\* multiLineBookmark
multiLineBookmark(b) ==
    LET title == IF b.Title = <<>> THEN <<"(", "T", "i", "t", "l", "e", ")">> ELSE b.Title
        url == IF b.URL = <<>> THEN <<"(", "U", "r", "l", ")">> ELSE b.URL
        comment == IF b.Comment = <<>> THEN <<"(", "C", "o", "m", "m", "e", "n", "t", ")">> ELSE b.Comment
        joined == JoinWith(b.Tags, <<",", " ">>)
        tags == IF joined = <<>> THEN <<"(", "T", "a", "g", "s", ")">> ELSE joined
    IN << formatEntryText(Sprint(b.ID) \o <<".", " ">> \o title),
          formatEntryText(<<">", " ">> \o url),
          formatEntryText(<<"+", " ">> \o comment),
          formatEntryText(<<"#", " ">> \o tags) >>

\* The entries of the lines of a bookmark
Lines(b) == [k \in 1 .. 4 |-> Entry(multiLineBookmark(b)[k], <<>>)]

\* handleAddShow: the draft with the id in.db.Len() + 1, between Back and
\* Confirm
handleAddShow(w) ==
    LET b == [w.Data.Bookmark EXCEPT !.ID = Uint16(w.len + 1)] IN
    [Call(w, "Len", w.len, ErrNone) EXCEPT
        !.Entries = <<Entry(opBack, <<>>)>> \o Lines(b) \o <<Entry(opConfirm, <<>>)>>,
        !.Data.State = StateAddSelect]

\* handleAddTitleShow, handleAddUrlShow, handleAddCommentShow,
\* handleAddTagsShow, handleModifyTitleShow, handleModifyCommentShow and
\* handleModifyTagsShow: the prompt with Back and Delete
PromptShow(w, state) ==
    [w EXCEPT !.Entries = <<Entry(opBack, <<>>), Entry(opDelete, <<>>)>>,
              !.Data.State = state]

handleAddTitleShow(w) == PromptShow(w, StateAddTitleSelect)
handleAddUrlShow(w) == PromptShow(w, StateAddUrlSelect)
handleAddCommentShow(w) == PromptShow(w, StateAddCommentSelect)
handleAddTagsShow(w) == PromptShow(w, StateAddTagsSelect)

handleModifyShow(w) ==
    [w EXCEPT !.Entries = <<Entry(opBack, <<>>)>> \o Lines(w.Data.Bookmark),
              !.Data.State = StateModifySelect]

handleModifyTitleShow(w) == PromptShow(w, StateModifyTitleSelect)
handleModifyCommentShow(w) == PromptShow(w, StateModifyCommentSelect)
handleModifyTagsShow(w) == PromptShow(w, StateModifyTagsSelect)

\* handleModifyUrlShow and handleDeleteConfirmShow: the prompt with Back alone
handleModifyUrlShow(w) ==
    [w EXCEPT !.Entries = <<Entry(opBack, <<>>)>>,
              !.Data.State = StateModifyUrlSelect]

\* A keybinding 3 that opens the modify menu
handleDeleteConfirmShow_Modify(w) == handleModifyShow(w)

handleDeleteConfirmShow(w) ==
    [w EXCEPT !.Entries = <<Entry(opBack, <<>>)>>,
              !.Data.State = StateDeleteConfirmSelect]

\* handleGotoExec: State = StateGotoExec and cmd.Start() of the browser
handleGotoExec(w, fault) ==
    LET w1 == [w EXCEPT !.Data.State = StateGotoExec] IN
    IF fault = "exec" THEN SetMessageToError([w1 EXCEPT !.exec = "failed"])
    ELSE [w1 EXCEPT !.exec = "started"]

\* handleBookmarksSelect
handleBookmarksSelect(w, input, rofiState, fault) ==
    IF rofiState = StateCustomKeybinding1 THEN handleAddShow(w)
    ELSE LET parsed == getIdFromBookmarkString(input) IN
         IF parsed.err THEN SetMessageToError(w)
         ELSE LET g == GetOutcome(w.rows, w.len, parsed.value)
                  w1 == Call(w, "Get", parsed.value, g.err)
              IN IF g.err # ErrNone THEN SetMessageToError(w1)
                 ELSE LET w2 == [w1 EXCEPT !.Data.Bookmark = g.b] IN
                      CASE rofiState = StateCustomKeybinding2 -> handleModifyShow(w2)
                        [] rofiState = StateCustomKeybinding3 -> handleDeleteConfirmShow(w2)
                        [] rofiState = StateSelected -> handleGotoExec(w2, fault)
                        [] OTHER -> HandleBookmarksShow(w2, fault)

\* A Confirm that adds the draft whatever its URL
AddConfirm_NoURLCheck(w, fault) ==
    LET a == AddOutcome(w.rows, w.len, w.Data.Bookmark, fault = "write")
        w1 == [Call(w, "Add", 0, a.err) EXCEPT
                  !.rows = a.rows, !.len = a.len, !.log = a.log]
    IN IF a.err # ErrNone THEN SetMessageToError(w1)
       ELSE HandleBookmarksShow(w1, fault)

\* handleAddSelect, input == opConfirm
AddConfirm(w, fault) ==
    IF w.Data.Bookmark.URL = <<>> THEN SetMessageToError(w)
    ELSE LET a == AddOutcome(w.rows, w.len, w.Data.Bookmark, fault = "write")
             w1 == [Call(w, "Add", 0, a.err) EXCEPT
                       !.rows = a.rows, !.len = a.len, !.log = a.log]
         IN IF a.err # ErrNone THEN SetMessageToError(w1)
            ELSE HandleBookmarksShow(w1, fault)

\* handleAddSelect: input[0] of an empty input is a runtime panic
handleAddSelect(w, input, fault) ==
    IF input = opBack THEN HandleBookmarksShow(w, fault)
    ELSE IF input = opConfirm THEN AddConfirm(w, fault)
    ELSE IF input = <<>> THEN [w EXCEPT !.panic = TRUE]
    ELSE CASE IsDigit(input[1]) -> handleAddTitleShow(w)
           [] input[1] = ">" -> handleAddUrlShow(w)
           [] input[1] = "+" -> handleAddCommentShow(w)
           [] input[1] = "#" -> handleAddTagsShow(w)
           [] OTHER -> handleAddShow(w)

\* A prompt of the add flow that takes Back for a value
AddFieldValue_TakesBack(old, input) == IF input = opDelete THEN <<>> ELSE input

\* handleAddTitleSelect, handleAddUrlSelect and handleAddCommentSelect: the
\* value of the field of the draft after the input
AddFieldValue(old, input) ==
    IF input = opBack THEN old
    ELSE IF input = opDelete THEN <<>>
    ELSE input

handleAddTitleSelect(w, input) ==
    handleAddShow([w EXCEPT !.Data.Bookmark.Title = AddFieldValue(@, input)])

handleAddUrlSelect(w, input) ==
    handleAddShow([w EXCEPT !.Data.Bookmark.URL = AddFieldValue(@, input)])

handleAddCommentSelect(w, input) ==
    handleAddShow([w EXCEPT !.Data.Bookmark.Comment = AddFieldValue(@, input)])

\* handleAddTagsSelect: the tags of the input, trimmed and sorted
handleAddTagsSelect(w, input) ==
    handleAddShow([w EXCEPT !.Data.Bookmark.Tags =
        IF input = opBack THEN @
        ELSE IF input = opDelete THEN <<>>
        ELSE SortTags(getTagsFromInput(input))])

handleModifySelect(w, input, fault) ==
    IF Len(input) < 1 THEN handleModifyShow(w)
    ELSE IF input = opBack THEN HandleBookmarksShow(w, fault)
    ELSE CASE IsDigit(input[1]) -> handleModifyTitleShow(w)
           [] input[1] = ">" -> handleModifyUrlShow(w)
           [] input[1] = "+" -> handleModifyCommentShow(w)
           [] input[1] = "#" -> handleModifyTagsShow(w)
           [] OTHER -> handleModifyShow(w)

\* The call of in.db.UpdateTitle, UpdateURL, UpdateComment or ClearTags, and
\* what follows it: the error, or the cached field set and the modify menu
ModifyField(w, op, field, column, value, cached, fault) ==
    LET id == w.Data.Bookmark.ID
        u == updateFieldOutcome(w.rows, w.len, id, column, value, fault = "write")
        w1 == [Call(w, op, id, u.err) EXCEPT !.rows = u.rows, !.log = u.log]
    IN IF u.err # ErrNone THEN SetMessageToError(w1)
       ELSE handleModifyShow([w1 EXCEPT !.Data.Bookmark[field] = cached])

\* A modify prompt that caches the new title whatever the store returns
handleModifyTitleSelect_CachesFirst(w, input, fault) ==
    LET value == IF input = opDelete THEN <<>> ELSE input IN
    IF value = opBack THEN handleModifyShow(w)
    ELSE [ModifyField(w, "UpdateTitle", "Title", "metadata", value, value, fault)
             EXCEPT !.Data.Bookmark.Title = value]

handleModifyTitleSelect(w, input, fault) ==
    LET value == IF input = opDelete THEN <<>> ELSE input IN
    IF value = opBack THEN handleModifyShow(w)
    ELSE ModifyField(w, "UpdateTitle", "Title", "metadata", value, value, fault)

handleModifyUrlSelect(w, input, fault) ==
    IF input = <<>> THEN handleModifyUrlShow(w)
    ELSE IF input = opBack THEN handleModifyShow(w)
    ELSE ModifyField(w, "UpdateURL", "URL", "URL", input, input, fault)

\* A prompt for the comment that takes the Delete option for a comment
handleModifyCommentSelect_NoDelete(w, input, fault) ==
    IF input = opBack THEN handleModifyShow(w)
    ELSE ModifyField(w, "UpdateComment", "Comment", "desc", input, input, fault)

handleModifyCommentSelect(w, input, fault) ==
    LET value == IF input = opDelete THEN <<>> ELSE input IN
    IF value = opBack THEN handleModifyShow(w)
    ELSE ModifyField(w, "UpdateComment", "Comment", "desc", value, value, fault)

RECURSIVE AppendAbsent(_, _)
\* for _, t := range tags { if !slices.Contains(Tags, t) { append } }
AppendAbsent(cached, tags) ==
    IF tags = <<>> THEN cached
    ELSE AppendAbsent(IF Contains(cached, Head(tags)) THEN cached
                      ELSE Append(cached, Head(tags)), Tail(tags))

\* in.db.AddTags or in.db.RemoveTags of one caller: db.Get(id), then
\* db.updateField(id, "tags", ...)
ModifyTags(w, op, tags, cached, fault) ==
    LET id == w.Data.Bookmark.ID
        g == GetOutcome(w.rows, w.len, id)
    IN IF g.err # ErrNone THEN SetMessageToError(Call(w, op, id, g.err))
       ELSE ModifyField(w, op, "Tags", "tags",
                        IF op = "AddTags" THEN AddTagsString(g.b.Tags, tags)
                        ELSE RemoveTagsString(g.b.Tags, tags),
                        cached, fault)

handleModifyTagsSelect(w, input, fault) ==
    LET cached == w.Data.Bookmark.Tags
        tags == getTagsFromInput(Tail(input))
    IN CASE input = opBack -> handleModifyShow(w)
         [] input = opDelete ->
              ModifyField(w, "ClearTags", "Tags", "tags", <<Comma>>, <<>>, fault)
         [] input # opBack /\ input # opDelete /\ HasPrefix(input, <<"+">>) ->
              ModifyTags(w, "AddTags", tags, SortTags(AppendAbsent(cached, tags)), fault)
         [] input # opBack /\ input # opDelete /\ HasPrefix(input, <<"-">>) ->
              ModifyTags(w, "RemoveTags", tags,
                         SelectSeq(cached, LAMBDA t : ~Contains(tags, t)), fault)
         [] OTHER -> handleModifyTagsShow(w)

\* A confirmation that takes any answer but Back for a yes
handleDeleteConfirmSelect_AnyAnswer(w, input, fault) ==
    IF input = opBack THEN HandleBookmarksShow(w, fault)
    ELSE LET id == w.Data.Bookmark.ID
             r == RemoveOutcome(w.rows, w.len, id, IF fault = "write" THEN 1 ELSE 0)
             w1 == [Call(w, "Remove", id, r.err) EXCEPT
                       !.rows = r.rows, !.len = r.len, !.log = r.log]
         IN IF r.err # ErrNone THEN SetMessageToError(w1)
            ELSE HandleBookmarksShow(w1, fault)

handleDeleteConfirmSelect(w, input, fault) ==
    IF input = opBack \/ input # <<"y", "e", "s">>
    THEN HandleBookmarksShow(w, fault)
    ELSE LET id == w.Data.Bookmark.ID
             r == RemoveOutcome(w.rows, w.len, id, IF fault = "write" THEN 1 ELSE 0)
             w1 == [Call(w, "Remove", id, r.err) EXCEPT
                       !.rows = r.rows, !.len = r.len, !.log = r.log]
         IN IF r.err # ErrNone THEN SetMessageToError(w1)
            ELSE HandleBookmarksShow(w1, fault)

\* HandleInput's switch on api.Data.State, after input = TrimSpace(input)
Dispatch(w, input, rofiState, fault) ==
    LET state == w.Data.State IN
    CASE state = StateBookmarksShow -> HandleBookmarksShow(w, fault)
      [] state = StateBookmarksSelect -> handleBookmarksSelect(w, input, rofiState, fault)
      [] state = StateAddShow -> handleAddShow(w)
      [] state = StateAddSelect -> handleAddSelect(w, input, fault)
      [] state = StateAddTitleShow -> handleAddTitleShow(w)
      [] state = StateAddTitleSelect -> handleAddTitleSelect(w, input)
      [] state = StateAddUrlShow -> handleAddUrlShow(w)
      [] state = StateAddUrlSelect -> handleAddUrlSelect(w, input)
      [] state = StateAddCommentShow -> handleAddCommentShow(w)
      [] state = StateAddCommentSelect -> handleAddCommentSelect(w, input)
      [] state = StateAddTagsShow -> handleAddTagsShow(w)
      [] state = StateAddTagsSelect -> handleAddTagsSelect(w, input)
      [] state = StateModifyShow -> handleModifyShow(w)
      [] state = StateModifySelect -> handleModifySelect(w, input, fault)
      [] state = StateModifyTitleShow -> handleModifyTitleShow(w)
      [] state = StateModifyTitleSelect -> handleModifyTitleSelect(w, input, fault)
      [] state = StateModifyUrlShow -> handleModifyUrlShow(w)
      [] state = StateModifyUrlSelect -> handleModifyUrlSelect(w, input, fault)
      [] state = StateModifyCommentShow -> handleModifyCommentShow(w)
      [] state = StateModifyCommentSelect -> handleModifyCommentSelect(w, input, fault)
      [] state = StateModifyTagsShow -> handleModifyTagsShow(w)
      [] state = StateModifyTagsSelect -> handleModifyTagsSelect(w, input, fault)
      [] state = StateDeleteConfirmShow -> handleDeleteConfirmShow(w)
      [] state = StateDeleteConfirmSelect -> handleDeleteConfirmSelect(w, input, fault)
      [] OTHER -> w

\* The latest call of the store a handler made, as ret keeps it
LastCall(w) ==
    IF w.calls = <<>> THEN ret
    ELSE LET c == w.calls[Len(w.calls)] IN
         Result(c.op, c.id, c.err, ZeroBookmark, <<>>)

\* What a handler leaves behind: after a panic nothing is drawn and api.Data
\* is as it was.
Draw(w, state, input, rofiState) ==
    /\ Data' = IF w.panic THEN Data ELSE w.Data
    /\ Entries' = IF w.panic THEN Entries ELSE w.Entries
    /\ rows' = w.rows
    /\ len' = w.len
    /\ handled' = [State |-> state, input |-> input, rofiState |-> rofiState,
                   calls |-> w.calls, exec |-> w.exec, panic |-> w.panic]
    /\ ret' = LastCall(w)
    /\ execLog' = w.log
    /\ UNCHANGED <<conn, mu, numWorkers, wpc, bookmarksMap, processErr, calls>>

\* in.HandleInput(input) of a handler on the opened store, rofi's state being
\* rofiState
HandleInput(input, rofiState, fault) ==
    /\ conn = "open" /\ Lock
    /\ Draw(Dispatch(World(Data, Entries, rows, len), TrimSpace(input),
                     rofiState, fault),
            Data.State, input, rofiState)

\* main, handleApiInput without a selected entry: rofi is started, api.Data
\* is new, and in.HandleBookmarksShow() shows the list
Start(fault) ==
    /\ conn = "open" /\ Lock
    /\ Data.State \in {StateNull, StateErrorShow, StateGotoExec}
    /\ Draw(HandleBookmarksShow(
                World([Bookmark |-> BlankBookmark, State |-> StateNull],
                      <<>>, rows, len), fault),
            StateNull, <<>>, "none")


(***************************************************************************)
(* The input handler on the store                                          *)
(***************************************************************************)
\* The rows of the tables the handler starts on: a title with a newline that
\* does not fit an entry, a URL with a scheme and "www.", tags and a comment;
\* a bookmark without a title; and bookmarks with a title and one tag.
MenuRow(i) ==
    CASE i = 1 -> [url |-> <<"h", ":", "/", "/", "w", "w", "w", ".", "a">>,
                   metadata |-> <<"T", "\n", "x">>,
                   tags |-> <<Comma, "a", Comma, "b", Comma>>,
                   desc |-> <<"c">>]
      [] i = 2 -> [url |-> <<"b">>, metadata |-> <<>>,
                   tags |-> <<Comma>>, desc |-> <<>>]
      [] OTHER -> [url |-> <<"c">> \o Sprint(i), metadata |-> <<"t">>,
                   tags |-> <<Comma, "b", Comma>>, desc |-> <<>>]

MenuTable(m) == [i \in IDs |-> IF i <= m THEN MenuRow(i) ELSE NoRow]

\* The handler before its first call, on a store to be opened on m rows
MenuInit(m) ==
    /\ conn = "none"
    /\ rows = MenuTable(m)
    /\ len = 0
    /\ mu = "free"
    /\ numWorkers = 0
    /\ wpc = [i \in Workers |-> "idle"]
    /\ bookmarksMap = EmptyMap
    /\ processErr = 0
    /\ ret = NoCall
    /\ execLog = <<>>
    /\ calls = [p \in Clients |-> Idle]
    /\ Data = [Bookmark |-> BlankBookmark, State |-> StateNull]
    /\ Entries = <<>>
    /\ handled = NoInput

\* The texts of the entries rofi shows
EntryTexts == {Entries[k].Text : k \in DOMAIN Entries}

Yes == <<"y", "e", "s">>

\* The list, the selection of a bookmark and the confirmation of a removal:
\* the user selects an entry of the list in any of rofi's ways, or types
\* something that is no entry; leaves the add and the modify menu by Back;
\* and answers the confirmation.
MaxListRows == 2

ListInputs ==
    CASE Data.State = StateBookmarksSelect ->
            EntryTexts \cup {<<"n", "o">>, <<"9">>}
      [] Data.State \in {StateAddSelect, StateModifySelect} -> {opBack}
      [] Data.State = StateDeleteConfirmSelect ->
            {opBack, Yes, <<"Y", "e", "s">>, <<"Y", "E", "S">>, <<"n", "o">>,
             <<" ">> \o Yes \o <<"\n">>}
      [] OTHER -> {}

ListInit == \E m \in 1 .. MaxListRows : MenuInit(m)

ListNext ==
    \/ \E fault \in OpenFaults : NewBukuDB(fault)
    \/ \E fault \in HandlerFaults : Start(fault)
    \/ \E input \in ListInputs, fault \in HandlerFaults :
          \E rofiState \in IF Data.State = StateBookmarksSelect
                           THEN RofiStates ELSE {StateSelected} :
             HandleInput(input, rofiState, fault)

ListSpec == ListInit /\ [][ListNext]_vars


\* The add flow: keybinding 1 on the list opens the add menu, the user
\* selects its entries, answers the prompts with Back, Delete, a value or
\* white space, and confirms; keybinding 2 on a bookmark opens the modify
\* menu, of which the user selects the URL line or Back and answers the URL
\* prompt.
MaxAddRows == 1

AddFlowInputs ==
    CASE Data.State = StateBookmarksSelect -> EntryTexts
      [] Data.State = StateAddSelect -> EntryTexts
      [] Data.State = StateModifySelect ->
            {e \in EntryTexts : e[1] \in {">", "<"}}
      [] Data.State = StateAddTitleSelect -> {opBack, opDelete, <<"t", " ">>}
      [] Data.State = StateAddUrlSelect -> {opBack, opDelete, <<"u">>, <<" ">>}
      [] Data.State = StateAddCommentSelect -> {opBack, opDelete, <<"c">>}
      [] Data.State = StateAddTagsSelect ->
            {opBack, opDelete, <<" ", "b", Comma, "a">>}
      [] Data.State = StateModifyUrlSelect -> {opBack, <<>>, <<" ">>, <<"u">>}
      [] OTHER -> {}

AddFlowInit == \E m \in 1 .. MaxAddRows : MenuInit(m)

AddFlowNext ==
    \/ \E fault \in OpenFaults : NewBukuDB(fault)
    \/ \E fault \in HandlerFaults : Start(fault)
    \/ \E input \in AddFlowInputs, fault \in HandlerFaults :
          \E rofiState \in IF Data.State = StateBookmarksSelect
                           THEN {StateCustomKeybinding1, StateCustomKeybinding2}
                           ELSE {StateSelected} :
             HandleInput(input, rofiState, fault)

AddSpec == AddFlowInit /\ [][AddFlowNext]_vars

\* The modify flow: the user selects an entry of the list by keybinding 2
\* or 3, by a plain selection or as a custom input, or types something that
\* is no entry; selects the lines of the modify menu; answers the prompts
\* for the title, the URL and the comment with Back, Delete, a value or
\* nothing; leaves the prompt for the tags by Back; and confirms a removal.
MaxModifyRows == 1

ModifyInputs ==
    CASE Data.State = StateBookmarksSelect ->
            EntryTexts \cup {<<"n", "o">>, <<"9">>}
      [] Data.State = StateModifySelect -> EntryTexts
      [] Data.State = StateModifyTitleSelect -> {opBack, opDelete, <<"t", " ">>}
      [] Data.State = StateModifyUrlSelect -> {opBack, opDelete, <<"u">>, <<>>}
      [] Data.State = StateModifyCommentSelect -> {opBack, opDelete, <<"d">>}
      [] Data.State = StateModifyTagsSelect -> {opBack}
      [] Data.State = StateDeleteConfirmSelect -> {Yes}
      [] OTHER -> {}

ModifyInit == \E m \in 1 .. MaxModifyRows : MenuInit(m)

ModifyNext ==
    \/ \E fault \in OpenFaults : NewBukuDB(fault)
    \/ \E fault \in HandlerFaults : Start(fault)
    \/ \E input \in ModifyInputs, fault \in HandlerFaults :
          \E rofiState \in IF Data.State = StateBookmarksSelect
                           THEN RofiStates \ {StateCustomKeybinding1}
                           ELSE {StateSelected} :
             HandleInput(input, rofiState, fault)

ModifySpec == ModifyInit /\ [][ModifyNext]_vars

(***************************************************************************)
(* Properties of the input handler                                         *)
(***************************************************************************)
\* The latest HandleInput called method op of the store
Called(h, op) == \E k \in DOMAIN h.calls : h.calls[k].op = op

\* The latest HandleInput called method op of the store, which returned err
Returned_(h, op, err) ==
    \E k \in DOMAIN h.calls : h.calls[k].op = op /\ h.calls[k].err = err

\* The bookmark stored under id: the columns of its row, the tags without
\* the commas around and between them
Stored(t, id) ==
    [ID |-> id, URL |-> t[id].url, Title |-> t[id].metadata,
     Tags |-> FilterNonEmpty(Split(t[id].tags)), Comment |-> t[id].desc]

\* C24 as the claim puts it: in the delete confirmation Remove is called if
\* and only if the input is exactly "yes"; after any other input the length
\* of the store is as before and the state is BookmarksSelect.
C24_RemoveOnlyOnYes ==
    [][\A input \in ListInputs, fault \in HandlerFaults :
          (Data.State = StateDeleteConfirmSelect
                /\ HandleInput(input, StateSelected, fault)) =>
             /\ Called(handled', "Remove") <=> input = Yes
             /\ input # Yes =>
                   len' = len /\ Data'.State = StateBookmarksSelect
      ]_vars

\* C24: in the delete confirmation Remove is called if and only if the
\* input, which HandleInput trims of the white space around it, is exactly
\* "yes"; after any other input no row and no length has changed, and the
\* state is BookmarksSelect with the list, or ErrorShow if GetAll failed.
C24_RemoveOnlyOnTrimmedYes ==
    [][\A input \in ListInputs, fault \in HandlerFaults :
          (Data.State = StateDeleteConfirmSelect
                /\ HandleInput(input, StateSelected, fault)) =>
             /\ Called(handled', "Remove") <=> TrimSpace(input) = Yes
             /\ Called(handled', "Remove") =>
                   handled'.calls[1] =
                      [op |-> "Remove", id |-> Data.Bookmark.ID,
                       err |-> handled'.calls[1].err]
             /\ TrimSpace(input) # Yes =>
                   /\ len' = len /\ rows' = rows
                   /\ Data'.State = IF fault = "GetAll" THEN StateErrorShow
                                    ELSE StateBookmarksSelect
      ]_vars

\* The answer "Yes" has removed nothing, and the list is shown
C24_Witness ==
    /\ handled.State = StateDeleteConfirmSelect
    /\ handled.input = <<"Y", "e", "s">>
    /\ ~Called(handled, "Remove")
    /\ Data.State = StateBookmarksSelect
    /\ len = MaxListRows

\* C27: from the list, keybinding 1 opens the add menu without a Get; on an
\* entry whose id parses and is in range keybinding 2 opens the modify menu,
\* keybinding 3 the confirmation of the removal, and a selection launches the
\* browser (GotoExec, if it starts), Data.Bookmark being the bookmark stored
\* under the id.
C27_ListKeybindings ==
    [][\A input \in ListInputs, rofiState \in RofiStates, fault \in HandlerFaults :
          (Data.State = StateBookmarksSelect
                /\ HandleInput(input, rofiState, fault)) =>
             LET parsed == getIdFromBookmarkString(TrimSpace(input))
                 id == parsed.value
                 valid == ~parsed.err /\ 1 <= id /\ id <= len
             IN /\ rofiState = StateCustomKeybinding1 =>
                      /\ Data'.State = StateAddSelect
                      /\ ~Called(handled', "Get")
                      /\ Data'.Bookmark = Data.Bookmark
                /\ (valid /\ rofiState = StateCustomKeybinding2) =>
                      /\ Data'.State = StateModifySelect
                      /\ Data'.Bookmark = Stored(rows, id)
                /\ (valid /\ rofiState = StateCustomKeybinding3) =>
                      /\ Data'.State = StateDeleteConfirmSelect
                      /\ Data'.Bookmark = Stored(rows, id)
                /\ (valid /\ rofiState = StateSelected /\ fault # "exec") =>
                      /\ Data'.State = StateGotoExec
                      /\ handled'.exec = "started"
                      /\ Data'.Bookmark = Stored(rows, id)
                /\ rows' = rows /\ len' = len
      ]_vars

\* Keybinding 3 on the entry of the second bookmark, which has no tags
C27_Witness ==
    /\ handled.State = StateBookmarksSelect
    /\ handled.rofiState = StateCustomKeybinding3
    /\ Data.State = StateDeleteConfirmSelect
    /\ rows[2] # NoRow
    /\ Data.Bookmark = Stored(rows, 2)
    /\ Data.Bookmark.Tags = <<>>

\* HandleBookmarksShow has run and GetAll has returned the bookmarks
ListShown == Returned_(handled, "GetAll", ErrNone)

\* The text the claim gives the entry of bookmark b, and its metadata
ClaimedText(b) ==
    PadLeft(Sprint(b.ID), 4) \o <<".", " ">>
        \o (IF b.Title # <<>> THEN b.Title ELSE b.URL)

ClaimedMeta(b) ==
    LET tags == JoinWith(b.Tags, <<" ">>) IN
    IF b.Title = <<>> THEN tags
    ELSE IF tags = <<>> THEN cleanURL(b.URL)
    ELSE tags \o <<" ">> \o cleanURL(b.URL)

\* C30 as the claim puts it: the entries of HandleBookmarksShow are those of
\* the bookmarks of GetAll, in their order; the text of each is the id
\* padded to four digits and the title, or the URL if there is no title.
C30_ListEntries ==
    ListShown =>
        LET all == loadBookmarks(rows, len, NumCPU) IN
        /\ Len(Entries) = Len(all)
        /\ \A k \in 1 .. Len(all) :
              /\ Entries[k].Text = ClaimedText(all[k])
              /\ Entries[k].Meta = ClaimedMeta(all[k])
        /\ Data = [Bookmark |-> BlankBookmark, State |-> StateBookmarksSelect]

\* C30: the entries of HandleBookmarksShow are those of the bookmarks of
\* GetAll, in their order; the text of each is the id padded to four digits
\* and the title, or the URL if there is no title, cut after entryMaxLen
\* bytes and with a space for each newline; its metadata are the tags and,
\* if there is a title, the URL without its scheme and "www."; the state is
\* BookmarksSelect and Data.Bookmark the zero bookmark.
C30_ListEntriesCut ==
    ListShown =>
        LET all == loadBookmarks(rows, len, NumCPU) IN
        /\ Len(Entries) = Len(all)
        /\ \A k \in 1 .. Len(all) :
              LET text == ClaimedText(all[k])
                  cut == SubSeq(text, 1, Min(Len(text), entryMaxLen))
              IN /\ Len(Entries[k].Text) = Len(cut)
                 /\ \A j \in 1 .. Len(cut) :
                       Entries[k].Text[j] = IF cut[j] = "\n" THEN " " ELSE cut[j]
                 /\ Entries[k].Meta = ClaimedMeta(all[k])
        /\ Data = [Bookmark |-> BlankBookmark, State |-> StateBookmarksSelect]

\* The list of two bookmarks: the first with its title cut, a space for its
\* newline, and its tags and its URL without scheme and "www." as metadata,
\* the second with its URL for a text
C30_Witness ==
    /\ ListShown
    /\ Len(Entries) = 2
    /\ Entries[1] = Entry(<<"0", "0", "0", "1", ".", " ", "T", " ">>,
                          <<"a", " ", "b", " ", "a">>)
    /\ Entries[2] = Entry(<<"0", "0", "0", "2", ".", " ", "b">>, <<>>)

\* The operations of the store that write
MutatingOps ==
    {"Add", "Remove", "UpdateTitle", "UpdateURL", "UpdateComment",
     "AddTags", "RemoveTags", "ClearTags"}

\* The latest HandleInput called no operation of the store that writes
NoMutatingCall(h) == \A k \in DOMAIN h.calls : h.calls[k].op \notin MutatingOps

\* The prompts of the add flow
AddPrompts ==
    {StateAddTitleSelect, StateAddUrlSelect, StateAddCommentSelect,
     StateAddTagsSelect}

\* The draft b after the answer input to the prompt of state
DraftAfter(b, state, input) ==
    LET value == IF input = opDelete THEN <<>> ELSE input IN
    IF input = opBack THEN b
    ELSE CASE state = StateAddTitleSelect -> [b EXCEPT !.Title = value]
           [] state = StateAddUrlSelect -> [b EXCEPT !.URL = value]
           [] state = StateAddCommentSelect -> [b EXCEPT !.Comment = value]
           [] state = StateAddTagsSelect ->
                 [b EXCEPT !.Tags = IF input = opDelete THEN <<>>
                                    ELSE SortTags(getTagsFromInput(input))]

\* C25: no row of the store has an empty URL; Confirm in the add menu on a
\* draft without a URL calls no Add and shows the error; and the empty input
\* at the prompt of the modify flow for the URL calls no UpdateURL, leaves
\* the cached URL as it is and stays in ModifyUrlSelect.
C25_NoEmptyURL ==
    /\ [](\A i \in IDs : rows[i] # NoRow => rows[i].url # <<>>)
    /\ [][\A input \in AddFlowInputs, fault \in HandlerFaults :
            HandleInput(input, StateSelected, fault) =>
               /\ (Data.State = StateAddSelect /\ TrimSpace(input) = opConfirm
                      /\ Data.Bookmark.URL = <<>>) =>
                     /\ ~Called(handled', "Add")
                     /\ Data'.State = StateErrorShow
                     /\ Entries' = <<Entry(opExit, <<>>)>>
                     /\ rows' = rows /\ len' = len
               /\ (Data.State = StateModifyUrlSelect /\ TrimSpace(input) = <<>>) =>
                     /\ ~Called(handled', "UpdateURL")
                     /\ Data'.Bookmark = Data.Bookmark
                     /\ Data'.State = StateModifyUrlSelect
                     /\ rows' = rows /\ len' = len
        ]_vars

\* Confirm on a draft with a title and no URL has shown the error, and
\* nothing was added
C25_Witness ==
    /\ handled.State = StateAddSelect
    /\ handled.input = opConfirm
    /\ Data.Bookmark.URL = <<>>
    /\ Data.Bookmark.Title = <<"t">>
    /\ Data.State = StateErrorShow
    /\ handled.calls = <<>>
    /\ len = MaxAddRows

\* C28: an answer to a prompt of the add flow changes the draft in
\* Data.Bookmark only, in the field of the prompt, and leads to AddSelect;
\* Back leaves the draft as it is; and no step of the add flow but Confirm
\* calls an operation of the store that writes.
C28_AddFlowDraftOnly ==
    [][\A input \in AddFlowInputs, fault \in HandlerFaults :
          HandleInput(input, StateSelected, fault) =>
             /\ Data.State \in AddPrompts =>
                   /\ Data'.Bookmark =
                         DraftAfter(Data.Bookmark, Data.State, TrimSpace(input))
                   /\ Data'.State = StateAddSelect
                   /\ rows' = rows /\ len' = len /\ execLog' = execLog
                   /\ NoMutatingCall(handled')
             /\ (Data.State = StateAddSelect /\ TrimSpace(input) # opConfirm) =>
                   /\ rows' = rows /\ len' = len /\ execLog' = execLog
                   /\ NoMutatingCall(handled')
      ]_vars

\* Back at the prompt for the tags of a draft with a URL and tags: the draft
\* is as it was, in the add menu
C28_Witness ==
    /\ handled.State = StateAddTagsSelect
    /\ handled.input = opBack
    /\ Data.State = StateAddSelect
    /\ Data.Bookmark.URL = <<"u">>
    /\ Data.Bookmark.Tags = << <<"a">>, <<"b">> >>
    /\ len = MaxAddRows

\* The HandleInput that h records hit an error: its input has no id to
\* parse, or a call of the store returned an error
HitError(h) ==
    \/ h.State = StateBookmarksSelect /\ h.rofiState # StateCustomKeybinding1
          /\ getIdFromBookmarkString(TrimSpace(h.input)).err
    \/ \E k \in DOMAIN h.calls : h.calls[k].err # ErrNone

ModifyPrompts ==
    {StateModifyTitleSelect, StateModifyUrlSelect, StateModifyCommentSelect}

UpdateOf(state) ==
    CASE state = StateModifyTitleSelect ->
            [op |-> "UpdateTitle", field |-> "Title", column |-> "metadata"]
      [] state = StateModifyUrlSelect ->
            [op |-> "UpdateURL", field |-> "URL", column |-> "URL"]
      [] state = StateModifyCommentSelect ->
            [op |-> "UpdateComment", field |-> "Comment", column |-> "desc"]

\* The row of id has value in the column
ColumnIs(t, id, column, value) ==
    CASE column = "metadata" -> t[id].metadata = value
      [] column = "URL" -> t[id].url = value
      [] column = "desc" -> t[id].desc = value

\* C29 as the claim puts it: at the prompts for the title, the URL and the
\* comment every input but Back calls the update of the store for
\* Data.Bookmark.ID; when it succeeds the cached field is the new value, the
\* empty string for the Delete option, and the state is ModifySelect; Back
\* calls nothing and leads to ModifySelect.
C29_ModifyUpdates ==
    [][\A input \in ModifyInputs, fault \in HandlerFaults :
          (Data.State \in ModifyPrompts
                /\ HandleInput(input, StateSelected, fault)) =>
             LET u == UpdateOf(Data.State)
                 in0 == TrimSpace(input)
                 value == IF in0 = opDelete THEN <<>> ELSE in0
             IN IF in0 = opBack
                THEN /\ handled'.calls = <<>>
                     /\ Data'.State = StateModifySelect
                     /\ Data'.Bookmark = Data.Bookmark
                ELSE /\ Called(handled', u.op)
                     /\ handled'.calls[1].id = Data.Bookmark.ID
                     /\ Returned_(handled', u.op, ErrNone) =>
                           /\ Data'.Bookmark = [Data.Bookmark EXCEPT ![u.field] = value]
                           /\ Data'.State = StateModifySelect
      ]_vars

\* C29: at the prompts for the title, the URL and the comment every input
\* but Back, and at the prompt for the URL but the empty one, calls the
\* update of the store for Data.Bookmark.ID with the new value: the input,
\* or the empty string for the Delete option, which the prompt for the URL
\* does not offer and takes for a URL; when the call succeeds the column of
\* the row and the cached field are the new value and the state is
\* ModifySelect; Back calls nothing and leads to ModifySelect; the empty
\* input at the prompt for the URL calls nothing and shows the prompt again.
C29_ModifyUpdatesButEmptyURL ==
    [][\A input \in ModifyInputs, fault \in HandlerFaults :
          (Data.State \in ModifyPrompts
                /\ HandleInput(input, StateSelected, fault)) =>
             LET u == UpdateOf(Data.State)
                 id == Data.Bookmark.ID
                 in0 == TrimSpace(input)
                 value == IF in0 = opDelete /\ Data.State # StateModifyUrlSelect
                          THEN <<>> ELSE in0
             IN IF in0 = opBack
                THEN /\ handled'.calls = <<>>
                     /\ Data'.State = StateModifySelect
                     /\ Data'.Bookmark = Data.Bookmark
                     /\ rows' = rows
                ELSE IF in0 = <<>> /\ Data.State = StateModifyUrlSelect
                THEN /\ handled'.calls = <<>>
                     /\ Data'.State = StateModifyUrlSelect
                     /\ Data'.Bookmark = Data.Bookmark
                     /\ rows' = rows
                ELSE /\ Len(handled'.calls) = 1
                     /\ handled'.calls[1].op = u.op
                     /\ handled'.calls[1].id = id
                     /\ handled'.calls[1].err = ErrNone =>
                           /\ ColumnIs(rows', id, u.column, value)
                           /\ Data'.Bookmark = [Data.Bookmark EXCEPT ![u.field] = value]
                           /\ Data'.State = StateModifySelect
      ]_vars

\* The Delete option at the prompt for the comment has emptied the comment
\* of the row and of the cached bookmark
C29_Witness ==
    /\ handled.State = StateModifyCommentSelect
    /\ handled.input = opDelete
    /\ Returned_(handled, "UpdateComment", ErrNone)
    /\ Data.State = StateModifySelect
    /\ Data.Bookmark.Comment = <<>>
    /\ rows[1].desc = <<>>
    /\ Data.Bookmark.ID = 1


(***************************************************************************)
(* The ranges of the loader                                                *)
(***************************************************************************)
\* loadBookmarks(conn, maxID) for every maxID of 1 .. MaxRangeIDs, which
\* GetAll passes as db.len, on tables that hold the rows of 1 .. maxID the
\* model has (the others have been deleted by another process).
MaxRangeIDs == 12

RangeInit ==
    /\ Data = ZeroData /\ Entries = <<>> /\ handled = NoInput
    /\ conn = "open"
    /\ len \in 1 .. MaxRangeIDs
    /\ rows = TestTable(Min(len, MaxID))
    /\ mu = "free"
    /\ numWorkers = 0
    /\ wpc = [i \in Workers |-> "idle"]
    /\ bookmarksMap = EmptyMap
    /\ processErr = 0
    /\ ret = NoCall
    /\ execLog = <<>>
    /\ calls = [p \in Clients |-> Idle]

RangeNext ==
    \/ \E w \in 1 .. MaxWorkers : GetAll(w)
    \/ \E i \in Workers, fault \in LoadFaults : processBookmarkRange(i, fault)
    \/ loadBookmarksReturn

RangeSpec == RangeInit /\ [][RangeNext]_vars

\* The ids of BETWEEN start AND end for goroutine i: none if start > end
RangeIDs(i, maxID, w) == RangeStart(i, maxID, w) .. RangeEnd(i, maxID, w)

\* C31: the ranges of the w goroutines of a loadBookmarks on maxID >= 1
\* hold every id of 1 .. maxID exactly once and no other id: none is
\* skipped, none is in two ranges, no range goes beyond maxID, and a range
\* whose start is above its end holds no id.  Hence the goroutines that end
\* without an error have stored every row of the table up to maxID.
C31_RangesTile ==
    (mu = "GetAll" /\ len >= 1) =>
        /\ \A id \in 1 .. len :
              Cardinality({i \in 0 .. numWorkers - 1 :
                              id \in RangeIDs(i, len, numWorkers)}) = 1
        /\ \A i \in 0 .. numWorkers - 1 :
              /\ RangeIDs(i, len, numWorkers) \subseteq 1 .. len
              /\ RangeStart(i, len, numWorkers) > RangeEnd(i, len, numWorkers)
                    => RangeIDs(i, len, numWorkers) = {}
        /\ (\A i \in 0 .. numWorkers - 1 : wpc[i] = "done") =>
              DOMAIN bookmarksMap = {id \in PersistedIDs(rows) : id <= len}

\* Three goroutines on four rows: the ranges are 1..2, 3..4 and 5..4, the
\* last without an id, and all four rows are stored
C31_Witness ==
    /\ mu = "GetAll" /\ len = 4 /\ numWorkers = 3
    /\ RangeStart(2, len, numWorkers) = 5 /\ RangeEnd(2, len, numWorkers) = 4
    /\ \A i \in 0 .. 2 : wpc[i] = "done"
    /\ DOMAIN bookmarksMap = 1 .. 4

\* C32: when several goroutines of one GetAll fail, the error GetAll returns
\* is that of the first that failed: processErr, once a goroutine has set
\* it, is the same until loadBookmarks returns it.
C32_FirstFailureKept ==
    [][(processErr # 0 /\ mu' = "GetAll") => processErr' = processErr]_vars

\* C33: a goroutine of the loader writes bookmarksMap only while it holds
\* the loader's mutex, which it takes and releases for each row and which is
\* not db.mu: at most one goroutine holds it, every change of bookmarksMap
\* during a GetAll is one row stored by the goroutine that holds the
\* mutex, which releases it with the write, and no step of a goroutine
\* takes or releases db.mu, which GetAll holds all the while.
C33_MapUnderLoaderLock ==
    /\ [](Cardinality({i \in Workers : wpc[i] = "locked"}) <= 1)
    /\ [][(mu = "GetAll" /\ mu' = "GetAll" /\ bookmarksMap' # bookmarksMap) =>
            \E i \in Workers :
               /\ wpc[i] = "locked" /\ wpc'[i] = "run"
               /\ \A j \in Workers \ {i} : wpc'[j] = wpc[j] /\ wpc[j] # "locked"
               /\ \E id \in RangeIDs(i, len, numWorkers) :
                     /\ id \notin DOMAIN bookmarksMap
                     /\ bookmarksMap' = StoreIDs(bookmarksMap, rows, {id})
        ]_vars
    /\ [][wpc' # wpc =>
            \/ mu = "free" /\ mu' = "GetAll"
            \/ mu = "GetAll" /\ mu' = "free"
            \/ mu = "GetAll" /\ mu' = "GetAll"]_vars
    /\ [][(\E i \in Workers : wpc[i] \in {"run", "locked"} /\ wpc'[i] # "idle")
            => mu' = mu /\ mu = "GetAll"]_vars

\* A goroutine holds the loader's mutex for the second row after the other
\* goroutine has stored the first and returned
C33_Witness ==
    /\ mu = "GetAll"
    /\ wpc[1] = "locked" /\ wpc[0] = "done"
    /\ DOMAIN bookmarksMap = {1}
    /\ Todo(1) = {2}

\* C34: on a store of length 0 GetAll starts no goroutine of the loader, and
\* returns the empty list and no error.
C34_EmptyStartsNoWorker ==
    [][len = 0 =>
          /\ (mu = "free" /\ mu' = "GetAll") =>
                (numWorkers' = 0 /\ \A i \in Workers : wpc'[i] = "idle")
          /\ (mu = "GetAll" /\ mu' = "free") =>
                (ret'.err = ErrNone /\ ret'.list = <<>>)
      ]_vars

\* C35: after the calls of Add, AddTags, RemoveTags, ClearTags and the
\* updates, for every id of 1 .. N the bookmark at position id of GetAll()
\* is the bookmark Get(id) returns: url, title, comment and tags.
C35_GetAllAgreesWithGet ==
    (conn = "open" /\ mu = "free" /\ Returned) =>
        \A id \in 1 .. len :
           LET g == GetOutcome(rows, len, id)
               all == loadBookmarks(rows, len, NumCPU)
           IN g.err = ErrNone => (Len(all) >= id /\ all[id] = g.b)


(***************************************************************************)
(* A tag operation and the mutations of another caller                     *)
(***************************************************************************)
\* One caller of AddTags and RemoveTags, and another that removes bookmarks
\* and clears tags whenever db.mu is free, also between the Get and the
\* updateField of the first.
MaxRaceRows == 2

RaceInit ==
    /\ Data = ZeroData /\ Entries = <<>> /\ handled = NoInput
    /\ conn = "none"
    /\ rows \in {TestTable(m) : m \in 1 .. MaxRaceRows}
    /\ len = 0
    /\ mu = "free"
    /\ numWorkers = 0
    /\ wpc = [i \in Workers |-> "idle"]
    /\ bookmarksMap = EmptyMap
    /\ processErr = 0
    /\ ret = NoCall
    /\ execLog = <<>>
    /\ calls = [p \in Clients |-> Idle]

RaceNext ==
    \/ \E fault \in OpenFaults : NewBukuDB(fault)
    \/ \E id \in 1 .. MaxRaceRows, tags \in ConcTagArgs :
          TagsGet(Caller, "AddTags", id, tags)
    \/ \E id \in 1 .. MaxRaceRows, tags \in ConcTagArgs :
          TagsGet(Caller, "RemoveTags", id, tags)
    \/ TagsUpdate(Caller, FALSE)
    \/ \E id \in 1 .. MaxRaceRows : Remove(id, 0)
    \/ \E id \in 1 .. MaxRaceRows : ClearTags(id, FALSE)

RaceSpec == RaceInit /\ [][RaceNext]_vars

\* C36: the write of an AddTags or RemoveTags(id, T) goes to the bookmark
\* that had the id when the call read it, and the tags it writes are
\* computed from the tags that bookmark has at the write, whatever another
\* caller has removed or changed since the read.
C36_TagsOfTheBookmarkRead ==
    [][(calls[Caller].pc # "idle" /\ calls'[Caller].pc = "idle"
            /\ ret'.err = ErrNone) =>
          LET c == calls[Caller] IN
          /\ rows[c.id] # NoRow
          /\ rows[c.id].url = c.b.URL
          /\ TagsOf(rows, c.id) = c.b.Tags
      ]_vars

\* C37: the cached length of an opened store is in 0 .. MaxBookmarks; the id
\* a successful Add assigns is the length plus one, and the id a successful
\* Get, Remove or update is called with is in 1 .. length: each fits the 16
\* bits of an id as it is.
C37_LenWithinCapacity ==
    /\ MaxBookmarks < IDMod
    /\ [](conn = "open" => (0 <= len /\ len <= MaxBookmarks))
    /\ [][(ret'.op = "Add" /\ ret'.err = ErrNone) =>
            /\ len' = len + 1 /\ len' = Uint16(len + 1)
            /\ len' <= MaxBookmarks
            /\ rows'[len'] # NoRow]_vars
    /\ [][(ret'.op \in {"Get", "Remove", "updateField"} /\ ret'.err = ErrNone) =>
            (1 <= ret'.id /\ ret'.id <= len /\ ret'.id = Uint16(ret'.id))]_vars

\* The store is full after an Add, and a further Add has been refused
C37_Witness ==
    /\ conn = "open" /\ len = MaxBookmarks
    /\ ret.op = "Add" /\ ret.err = ErrMax
    /\ rows[MaxBookmarks].url = "new.com"


(***************************************************************************)
(* The input handler: the tags of the modify flow                          *)
(***************************************************************************)
\* Keybinding 2 on a bookmark of the list, the line of the tags in the
\* modify menu, and at the prompt Back, Delete, tags to add ("+ ...") or to
\* remove ("- ..."), among them a tag twice and empty items, or other text.
MaxTagFlowRows == 1

TagFlowInputs ==
    CASE Data.State = StateBookmarksSelect -> EntryTexts
      [] Data.State = StateModifySelect ->
            {e \in EntryTexts : e[1] \in {"#", "<"}}
      [] Data.State = StateModifyTagsSelect ->
            {opBack, opDelete,
             <<"+", "B">>, <<"+", "A", Comma, "A">>, <<"+", " ", "b", Comma, " ">>,
             <<"-", "b">>, <<"-", " ", "a", Comma, Comma>>, <<"a">>}
      [] OTHER -> {}

TagFlowInit == \E m \in 1 .. MaxTagFlowRows : MenuInit(m)

TagFlowNext ==
    \/ \E fault \in OpenFaults : NewBukuDB(fault)
    \/ \E fault \in HandlerFaults : Start(fault)
    \/ \E input \in TagFlowInputs, fault \in HandlerFaults :
          HandleInput(input, IF Data.State = StateBookmarksSelect
                             THEN StateCustomKeybinding2 ELSE StateSelected, fault)

TagFlowSpec == TagFlowInit /\ [][TagFlowNext]_vars

\* C38: after a successful step of the modify flow that adds ("+ ...") or
\* removes ("- ...") tags, the tags cached in Data.Bookmark are the tags Get
\* returns for the id.
C38_CachedTagsAreStored ==
    [][(handled' # handled /\ handled'.State = StateModifyTagsSelect
            /\ (Returned_(handled', "AddTags", ErrNone)
                   \/ Returned_(handled', "RemoveTags", ErrNone))) =>
          LET g == GetOutcome(rows', len', Data'.Bookmark.ID) IN
          g.err = ErrNone /\ Data'.Bookmark.Tags = g.b.Tags
      ]_vars


(***************************************************************************)
(* The input handler: any input in any state                               *)
(***************************************************************************)
\* In every state the user selects an entry, or the input is the empty
\* string, white space, or a text that matches no option.
MaxInputRows == 1

AnyInputs == EntryTexts \cup {<<>>, <<" ">>, <<"b">>}

InputInit == \E m \in 1 .. MaxInputRows : MenuInit(m)

InputNext ==
    \/ \E fault \in OpenFaults : NewBukuDB(fault)
    \/ \E fault \in HandlerFaults : Start(fault)
    \/ \E input \in AnyInputs, fault \in {"none"} :
          \E rofiState \in IF Data.State = StateBookmarksSelect
                           THEN RofiStates ELSE {StateSelected} :
             /\ Data.State \notin {StateNull, StateErrorShow, StateGotoExec}
             /\ HandleInput(input, rofiState, fault)

InputSpec == InputInit /\ [][InputNext]_vars

\* C39: HandleInput handles every input in every state, the empty string
\* included, without a runtime fault, and an input that matches no option
\* of the add menu or of the modify menu shows the menu again.
C39_NoRuntimeFault ==
    /\ [](~handled.panic)
    /\ [][(handled' # handled /\ handled'.State \in {StateAddSelect, StateModifySelect}
             /\ TrimSpace(handled'.input) \in {<<>>, <<"b">>}) =>
            Data'.State = handled'.State]_vars


(***************************************************************************)
(* The open of an empty table                                              *)
(***************************************************************************)
\* C40: NewBukuDB on a bookmarks table without rows, with no storage fault,
\* returns a store and no error, and the Len() of that store is 0, the next
\* id of Add being 1.
C40_EmptyTableOpens ==
    [][(NewBukuDB("none") /\ MaxIDOf(rows) = 0) =>
          /\ ret'.err = ErrNone
          /\ conn' = "open"
          /\ len' + 1 = 1]_vars

=============================================================================
